---------------------------- MODULE Spec2Model ----------------------------
(***************************************************************************)
(* GRC-20 edit codec: encode_edit / encode_edit_compressed / decode_edit   *)
(* (codec/edit.rs), the property-value codec (codec/value.rs) and the      *)
(* limits (limits.rs), as a state machine.  decode_edit is modelled step   *)
(* by step (one action per statement group of the function), the encoder   *)
(* as operators computed the way the code computes them.                   *)
(***************************************************************************)
EXTENDS Integers, Sequences, FiniteSets, TLC

(***************************************************************************)
(* Program constants (limits.rs)                                           *)
(***************************************************************************)
MAX_VARINT_BYTES == 10
MAX_STRING_LEN == 16777216
MAX_VALUES_PER_ENTITY == 10000
MAX_AUTHORS == 1000
MAX_DICT_SIZE == 1000000
MAX_OPS_PER_EDIT == 1000000
MAX_EDIT_SIZE == 268435456
MAX_POSITION_LEN == 64
FORMAT_VERSION == 1
\* b"GRC2" and b"GRC2Z"
MAGIC_UNCOMPRESSED == <<71, 82, 67, 50>>
MAGIC_COMPRESSED == <<71, 82, 67, 50, 90>>
\* pub type Id = [u8; 16]
ID_LEN == 16

(***************************************************************************)
(* DataType wire codes (model/value.rs)                                    *)
(***************************************************************************)
DT_Bool == 1
DT_Text == 5
DT_Float64 == 3
DT_Decimal == 4
DT_Embedding == 10
MAX_EMBEDDING_DIMS == 65536
MAX_EMBEDDING_BYTES == 4 * MAX_EMBEDDING_DIMS
\* EmbeddingSubType
Float32 == 0
Int8 == 1
Binary == 2
\* the decimal digits of u32::MAX, as ASCII
U32_MAX_DIGITS == <<52, 50, 57, 52, 57, 54, 55, 50, 57, 53>>
DataType_from_u8(v) == IF v \in 1..11 THEN <<v>> ELSE <<>>

(***************************************************************************)
(* Bounds of the model                                                     *)
(***************************************************************************)
\* longest op stream of an Edit handed to the encoder
MaxOps == 2
\* blocks of the compressed stream consumed by one read of read_to_end
ReadChunk == 24

(***************************************************************************)
(* Byte buffers.  A buffer is its explicit bytes followed by `pad` zero    *)
(* bytes, so that inputs longer than MAX_EDIT_SIZE can be represented.     *)
(***************************************************************************)
Buf(bytes, pad) == [bytes |-> bytes, pad |-> pad]
DLen(d) == Len(d.bytes) + d.pad
\* byte at 0-based offset i
DAt(d, i) == IF i < Len(d.bytes) THEN d.bytes[i + 1] ELSE 0
DSlice(d, from, n) == [k \in 1..n |-> DAt(d, from + k - 1)]

Ok(v, pos) == [ok |-> TRUE, v |-> v, pos |-> pos]
Err(e) == [ok |-> FALSE, err |-> e]
\* the `?` operator: continue with the value of an Ok, return an Err unchanged
Bind(r, K(_)) == IF r.ok THEN K(r) ELSE r
\* `let x = ...;`: x is evaluated, then the rest runs with it
With(x, K(_)) == IF x = x THEN K(x) ELSE K(x)

\* DecodeError variants (error.rs)
UnexpectedEof(ctx) == [name |-> "UnexpectedEof", context |-> ctx]
InvalidMagic(found) == [name |-> "InvalidMagic", found |-> found]
UnsupportedVersion(v) == [name |-> "UnsupportedVersion", version |-> v]
InvalidBool(v) == [name |-> "InvalidBool", value |-> v]
IndexOutOfBounds(dict, index, size) ==
    [name |-> "IndexOutOfBounds", dict |-> dict, index |-> index, size |-> size]
LengthExceedsLimit(field, len, max) ==
    [name |-> "LengthExceedsLimit", field |-> field, len |-> len, max |-> max]
InvalidDataType(v) == [name |-> "InvalidDataType", data_type |-> v]
MalformedEncoding(ctx) == [name |-> "MalformedEncoding", context |-> ctx]
DecompressionFailed(msg) == [name |-> "DecompressionFailed", msg |-> msg]
UncompressedSizeMismatch(declared, actual) ==
    [name |-> "UncompressedSizeMismatch", declared |-> declared, actual |-> actual]
InvalidPositionChar(c) == [name |-> "InvalidPositionChar", char |-> c]
VarintTooLong == [name |-> "VarintTooLong"]
DecimalNotNormalized == [name |-> "DecimalNotNormalized"]
DecimalMantissaNotMinimal == [name |-> "DecimalMantissaNotMinimal"]
InvalidEmbeddingSubType(v) == [name |-> "InvalidEmbeddingSubType", sub_type |-> v]
FloatIsNan == [name |-> "FloatIsNan"]

(***************************************************************************)
(* Writer primitives (codec/primitives.rs)                                 *)
(***************************************************************************)
RECURSIVE write_varint(_)
write_varint(n) ==
    IF n < 128 THEN <<n>>
    ELSE <<(n % 128) + 128>> \o write_varint(n \div 128)

\* zigzag(n) = (n << 1) ^ (n >> 63)
zigzag(n) == IF n >= 0 THEN 2 * n ELSE (-2 * n) - 1
\* (u >> 1) ^ -(u & 1)
unzigzag(u) == IF u % 2 = 0 THEN u \div 2 ELSE -((u + 1) \div 2)
write_signed_varint(n) == write_varint(zigzag(n))
write_id(id) == id
write_string(s) == write_varint(Len(s)) \o s

RECURSIVE Concat(_)
Concat(ss) == IF ss = <<>> THEN <<>> ELSE Head(ss) \o Concat(Tail(ss))
write_id_vec(ids) == write_varint(Len(ids)) \o Concat(ids)

(***************************************************************************)
(* Reader primitives (codec/primitives.rs)                                 *)
(***************************************************************************)
RECURSIVE Pow128(_)
Pow128(i) == IF i = 0 THEN 1 ELSE 128 * Pow128(i - 1)

read_byte(d, pos, ctx) ==
    IF pos >= DLen(d) THEN Err(UnexpectedEof(ctx)) ELSE Ok(DAt(d, pos), pos + 1)

read_bytes(d, pos, n, ctx) ==
    IF DLen(d) - pos < n THEN Err(UnexpectedEof(ctx))
    ELSE Ok(DSlice(d, pos, n), pos + n)

RECURSIVE read_varint_loop(_, _, _, _, _)
read_varint_loop(d, pos, i, acc, ctx) ==
    IF i >= MAX_VARINT_BYTES THEN Err(VarintTooLong)
    ELSE IF pos >= DLen(d) THEN Err(UnexpectedEof(ctx))
    ELSE With(DAt(d, pos), LAMBDA b:
         With(IF b % 128 = 0 THEN acc ELSE acc + (b % 128) * Pow128(i), LAMBDA acc2:
             IF i = MAX_VARINT_BYTES - 1 /\ b % 128 > 1 THEN Err(VarintTooLong)
             ELSE IF b < 128 THEN Ok(acc2, pos + 1)
             ELSE read_varint_loop(d, pos + 1, i + 1, acc2, ctx)))
read_varint(d, pos, ctx) == read_varint_loop(d, pos, 0, 0, ctx)

read_signed_varint(d, pos, ctx) ==
    Bind(read_varint(d, pos, ctx), LAMBDA r: Ok(unzigzag(r.v), r.pos))

read_id(d, pos, ctx) == read_bytes(d, pos, ID_LEN, ctx)

\* std::str::from_utf8: well-formed UTF-8 (RFC 3629)
IsCont(b) == b \in 128..191
RECURSIVE IsUtf8(_)
IsUtf8(s) ==
    IF s = <<>> THEN TRUE
    ELSE IF s[1] < 128 THEN IsUtf8(SubSeq(s, 2, Len(s)))
    ELSE IF s[1] \in 194..223
         THEN Len(s) >= 2 /\ IsCont(s[2]) /\ IsUtf8(SubSeq(s, 3, Len(s)))
    ELSE IF s[1] \in 224..239
         THEN /\ Len(s) >= 3
              /\ IsCont(s[2]) /\ IsCont(s[3])
              /\ (s[1] = 224 => s[2] >= 160)
              /\ (s[1] = 237 => s[2] <= 159)
              /\ IsUtf8(SubSeq(s, 4, Len(s)))
    ELSE IF s[1] \in 240..244
         THEN /\ Len(s) >= 4
              /\ IsCont(s[2]) /\ IsCont(s[3]) /\ IsCont(s[4])
              /\ (s[1] = 240 => s[2] >= 144)
              /\ (s[1] = 244 => s[2] <= 143)
              /\ IsUtf8(SubSeq(s, 5, Len(s)))
    ELSE FALSE

read_string(d, pos, max, ctx) ==
    Bind(read_varint(d, pos, ctx), LAMBDA l:
        IF l.v > max THEN Err(LengthExceedsLimit(ctx, l.v, max))
        ELSE Bind(read_bytes(d, l.pos, l.v, ctx), LAMBDA b:
                 IF ~IsUtf8(b.v) THEN Err(MalformedEncoding("invalid UTF-8"))
                 ELSE b))

(***************************************************************************)
(* Data model (model/value.rs, model/op.rs, model/edit.rs)                 *)
(***************************************************************************)
Id(b) == [i \in 1..ID_LEN |-> b]
\* Option<T>: None is the empty sequence, Some(x) is <<x>>
None == <<>>
Some(x) == <<x>>

VBool(b) == [tag |-> "Bool", b |-> b]
VText(s, language) == [tag |-> "Text", value |-> s, language |-> language]
\* DecimalMantissa::I64 and DecimalMantissa::Big (big-endian two's complement)
I64(v) == [form |-> "I64", v |-> v]
Big(bytes) == [form |-> "Big", bytes |-> bytes]
\* Value::Decimal, without unit
VDecimal(exponent, mantissa) ==
    [tag |-> "Decimal", exponent |-> exponent, mantissa |-> mantissa]
\* an f64 is held as its IEEE-754 bit pattern, the 8 bytes of to_le_bytes
VFloat64(bits) == [tag |-> "Float64", value |-> bits]
VEmbedding(sub_type, dims, bytes) ==
    [tag |-> "Embedding", sub_type |-> sub_type, dims |-> dims, data |-> bytes]
\* EmbeddingSubType::bytes_for_dims
bytes_for_dims(sub_type, dims) ==
    CASE sub_type = Float32 -> dims * 4
      [] sub_type = Int8 -> dims
      [] sub_type = Binary -> (dims + 7) \div 8
PV(property, value) == [property |-> property, value |-> value]

\* Value::data_type
data_type(value) ==
    CASE value.tag = "Bool" -> DT_Bool
      [] value.tag = "Text" -> DT_Text
      [] value.tag = "Float64" -> DT_Float64
      [] value.tag = "Decimal" -> DT_Decimal
      [] value.tag = "Embedding" -> DT_Embedding

\* the `%` of Rust: the remainder has the sign of the dividend
Rem(a, b) == IF a >= 0 THEN a % b ELSE -((-a) % b)

\* DecimalMantissa::has_trailing_zeros
has_trailing_zeros(m) ==
    IF m.form = "I64" THEN m.v # 0 /\ Rem(m.v, 10) = 0
    ELSE m.bytes # <<>> /\ m.bytes[Len(m.bytes)] = 0

\* DecimalMantissa::is_zero
is_zero(m) ==
    IF m.form = "I64" THEN m.v = 0
    ELSE \A i \in 1..Len(m.bytes) : m.bytes[i] = 0

\* Value::validate: None, or Some(description of what is invalid)
Value_validate(value) ==
    IF value.tag = "Decimal"
    THEN IF is_zero(value.mantissa) /\ value.exponent # 0
         THEN Some("zero DECIMAL must have exponent 0")
         ELSE IF ~is_zero(value.mantissa) /\ has_trailing_zeros(value.mantissa)
              THEN Some("DECIMAL mantissa has trailing zeros (not normalized)")
         ELSE None
    ELSE None

CreateProperty(id, dt) == [op |-> "CreateProperty", id |-> id, data_type |-> dt]
CreateEntity(id, values) == [op |-> "CreateEntity", id |-> id, values |-> values]
UpdateEntity(id, set, add, remove, unset) ==
    [op |-> "UpdateEntity", id |-> id, set_properties |-> set, add_values |-> add,
     remove_values |-> remove, unset_properties |-> unset]
DeleteEntity(id) == [op |-> "DeleteEntity", id |-> id]
CreateRelation(id, from, to, rtype, position) ==
    [op |-> "CreateRelation", id |-> id, from |-> from, to |-> to,
     relation_type |-> rtype, position |-> position]
UpdateRelation(id, position) ==
    [op |-> "UpdateRelation", id |-> id, position |-> position]
DeleteRelation(id) == [op |-> "DeleteRelation", id |-> id]

Edit(id, name, authors, created_at, ops) ==
    [id |-> id, name |-> name, authors |-> authors, created_at |-> created_at,
     ops |-> ops]

(***************************************************************************)
(* DictionaryBuilder / WireDictionaries (model/edit.rs): four insertion-   *)
(* ordered lists; adding an Id that is already present returns its index.  *)
(***************************************************************************)
DictionaryBuilder_new ==
    [properties |-> <<>>, relation_types |-> <<>>, languages |-> <<>>,
     objects |-> <<>>]

\* 0-based index of x in s, or -1
RECURSIVE IndexFrom(_, _, _)
IndexFrom(s, x, i) ==
    IF i > Len(s) THEN -1 ELSE IF s[i] = x THEN i - 1 ELSE IndexFrom(s, x, i + 1)
IndexOf(s, x) == IndexFrom(s, x, 1)

PropIds(props) == [i \in 1..Len(props) |-> props[i][1]]

\* Faulty variant: an entry is found again only under the same data type.
add_property_per_type(b, id, dt) ==
    With(IndexOf(b.properties, <<id, dt>>), LAMBDA i:
        IF i >= 0 THEN [b |-> b, idx |-> i]
        ELSE [b |-> [b EXCEPT !.properties = Append(@, <<id, dt>>)],
              idx |-> Len(b.properties)])

add_property(b, id, dt) ==
    With(IndexOf(PropIds(b.properties), id), LAMBDA i:
        IF i >= 0 THEN [b |-> b, idx |-> i]
        ELSE [b |-> [b EXCEPT !.properties = Append(@, <<id, dt>>)],
              idx |-> Len(b.properties)])

add_relation_type(b, id) ==
    With(IndexOf(b.relation_types, id), LAMBDA i:
        IF i >= 0 THEN [b |-> b, idx |-> i]
        ELSE [b |-> [b EXCEPT !.relation_types = Append(@, id)],
              idx |-> Len(b.relation_types)])

\* index 0 is "no language"; Some(id) is languages[i - 1]
add_language(b, language) ==
    IF language = None THEN [b |-> b, idx |-> 0]
    ELSE With(IndexOf(b.languages, language[1]), LAMBDA i:
             IF i >= 0 THEN [b |-> b, idx |-> i + 1]
             ELSE [b |-> [b EXCEPT !.languages = Append(@, language[1])],
                   idx |-> Len(b.languages) + 1])

add_object(b, id) ==
    With(IndexOf(b.objects, id), LAMBDA i:
        IF i >= 0 THEN [b |-> b, idx |-> i]
        ELSE [b |-> [b EXCEPT !.objects = Append(@, id)],
              idx |-> Len(b.objects)])

\* DictionaryBuilder::build
build(b) == b

(***************************************************************************)
(* HashMap<Id, DataType> property_types.  A map is created with a          *)
(* RandomState (`seed`) that fixes its iteration order; get and insert do  *)
(* not depend on it.                                                       *)
(***************************************************************************)
HashMap_new(seed) == [seed |-> seed, entries |-> <<>>]
HashMap_contains(m, k) == k \in DOMAIN m.entries
HashMap_get(m, k) == m.entries[k]
HashMap_insert(m, k, v) ==
    [m EXCEPT !.entries =
        [x \in (DOMAIN m.entries) \cup {k} |-> IF x = k THEN v ELSE m.entries[x]]]

(***************************************************************************)
(* Pass 1 of the encoder (collect_edit_ids, collect_property_values).      *)
(* The state threaded through is [builder, property_types].                *)
(***************************************************************************)
\* Faulty variant: the language of a Text value is not collected.
collect_one_value_without_language(st, pv) ==
    With(IF HashMap_contains(st.property_types, pv.property)
         THEN HashMap_get(st.property_types, pv.property)
         ELSE data_type(pv.value), LAMBDA dt:
        [builder |-> add_property(st.builder, pv.property, dt).b,
         property_types |-> HashMap_insert(st.property_types, pv.property, dt)])
collect_one_value(st, pv) ==
    With(IF HashMap_contains(st.property_types, pv.property)
         THEN HashMap_get(st.property_types, pv.property)
         ELSE data_type(pv.value), LAMBDA dt:
    With(add_property(st.builder, pv.property, dt).b, LAMBDA b1:
        [builder |-> IF pv.value.tag = "Text"
                     THEN add_language(b1, pv.value.language).b
                     ELSE b1,
         property_types |-> HashMap_insert(st.property_types, pv.property, dt)]))

\* Faulty variant: the values are walked from the last to the first.
RECURSIVE collect_property_values_reversed(_, _)
collect_property_values_reversed(values, st) ==
    IF values = <<>> THEN st
    ELSE collect_one_value(collect_property_values_reversed(Tail(values), st),
                           Head(values))
RECURSIVE collect_property_values(_, _)
collect_property_values(values, st) ==
    IF values = <<>> THEN st
    ELSE collect_property_values(Tail(values), collect_one_value(st, Head(values)))

RECURSIVE collect_unset(_, _)
collect_unset(unset, st) ==
    IF unset = <<>> THEN st
    ELSE collect_unset(Tail(unset),
             [st EXCEPT !.builder = add_property(@, Head(unset), DT_Bool).b])

collect_op(st, op) ==
    CASE op.op = "CreateEntity" -> collect_property_values(op.values, st)
      [] op.op = "UpdateEntity" ->
            collect_unset(op.unset_properties,
              collect_property_values(op.remove_values,
                collect_property_values(op.add_values,
                  collect_property_values(op.set_properties,
                    [st EXCEPT !.builder = add_object(@, op.id).b]))))
      [] op.op = "DeleteEntity" -> [st EXCEPT !.builder = add_object(@, op.id).b]
      [] op.op = "CreateRelation" ->
            [st EXCEPT !.builder =
                add_object(add_object(add_relation_type(@, op.relation_type).b,
                                      op.from).b, op.to).b]
      [] op.op = "UpdateRelation" -> [st EXCEPT !.builder = add_object(@, op.id).b]
      [] op.op = "DeleteRelation" -> [st EXCEPT !.builder = add_object(@, op.id).b]
      [] op.op = "CreateProperty" ->
            [st EXCEPT !.property_types = HashMap_insert(@, op.id, op.data_type)]

RECURSIVE collect_ops(_, _)
collect_ops(ops, st) ==
    IF ops = <<>> THEN st ELSE collect_ops(Tail(ops), collect_op(st, Head(ops)))

\* Faulty variant: the properties dictionary is emitted in the iteration
\* order of a hash map, which the RandomState decides.
HashBefore(seed, a, b) == IF seed % 2 = 0 THEN a[1] < b[1] ELSE a[1] > b[1]
hash_order(seed, props) ==
    [i \in 1..Len(props) |->
        CHOOSE p \in {props[j] : j \in 1..Len(props)} :
            Cardinality({j \in 1..Len(props) : HashBefore(seed, props[j][1], p[1])})
                = i - 1]
collect_edit_ids_hash_order(edit, seed) ==
    With(collect_ops(edit.ops,
             [builder |-> DictionaryBuilder_new, property_types |-> HashMap_new(seed)]),
         LAMBDA st: [st EXCEPT !.builder.properties = hash_order(seed, @)])

collect_edit_ids(edit, seed) ==
    collect_ops(edit.ops,
        [builder |-> DictionaryBuilder_new, property_types |-> HashMap_new(seed)])

(***************************************************************************)
(* Value codec (codec/value.rs).  Encoders return [ok, bytes, b]: the      *)
(* bytes appended to the writer and the dictionary builder afterwards.     *)
(***************************************************************************)
Enc(bytes, b) == [ok |-> TRUE, bytes |-> bytes, b |-> b]
EncErr(e) == [ok |-> FALSE, err |-> e]

\* str::split: the pieces of s between occurrences of sep
RECURSIVE split(_, _)
split(s, sep) ==
    IF \A i \in 1..Len(s) : s[i] # sep THEN <<s>>
    ELSE With(CHOOSE i \in 1..Len(s) :
                  s[i] = sep /\ \A j \in 1..(i - 1) : s[j] # sep, LAMBDA i:
             <<SubSeq(s, 1, i - 1)>> \o split(SubSeq(s, i + 1, Len(s)), sep))

is_ascii_digit(c) == c \in 48..57

RECURSIVE DigitsValue(_)
DigitsValue(ds) ==
    IF ds = <<>> THEN 0
    ELSE 10 * DigitsValue(SubSeq(ds, 1, Len(ds) - 1)) + (ds[Len(ds)] - 48)
RECURSIVE StripZeros(_)
StripZeros(ds) == IF ds # <<>> /\ ds[1] = 48 THEN StripZeros(Tail(ds)) ELSE ds
\* ds, without leading zeros, is above u32::MAX = 4294967295
AboveU32(ds) ==
    \/ Len(ds) > 10
    \/ /\ Len(ds) = 10
       /\ \E i \in 1..10 :
              /\ ds[i] > U32_MAX_DIGITS[i]
              /\ \A j \in 1..(i - 1) : ds[j] = U32_MAX_DIGITS[j]
\* str::parse::<u32>: an optional '+', then one or more ASCII digits whose
\* value fits u32.  The value of more than 9 significant digits is not
\* represented (0 stands for it); its callers discard it.
parse_u32(s) ==
    With(IF s # <<>> /\ s[1] = 43 THEN Tail(s) ELSE s, LAMBDA ds:
        IF ds = <<>> \/ \E i \in 1..Len(ds) : ~is_ascii_digit(ds[i]) THEN Err("InvalidDigit")
        ELSE IF AboveU32(StripZeros(ds)) THEN Err("PosOverflow")
        ELSE Ok(IF Len(StripZeros(ds)) > 9 THEN 0 ELSE DigitsValue(StripZeros(ds)), 0))

validate_year_part(s, is_bce) ==
    IF Len(s) < 4
    THEN Err(MalformedEncoding("DATE year must be at least 4 digits"))
    ELSE IF \E i \in 1..Len(s) : ~is_ascii_digit(s[i])
    THEN Err(MalformedEncoding("DATE year contains non-digit characters"))
    ELSE IF is_bce /\ \A i \in 1..Len(s) : s[i] = 48
    THEN Err(MalformedEncoding("DATE -0000 is invalid (use 0000 for 1 BCE)"))
    ELSE IF ~parse_u32(s).ok
    THEN Err(MalformedEncoding("DATE year is not a valid number"))
    ELSE parse_u32(s)

validate_month_part(s) ==
    IF Len(s) # 2 THEN Err(MalformedEncoding("DATE month must be 2 digits"))
    ELSE IF ~parse_u32(s).ok
    THEN Err(MalformedEncoding("DATE month is not a valid number"))
    ELSE IF parse_u32(s).v \notin 1..12
    THEN Err(MalformedEncoding("DATE month out of range (must be 01-12)"))
    ELSE parse_u32(s)

validate_day_part(s, month) ==
    IF Len(s) # 2 THEN Err(MalformedEncoding("DATE day must be 2 digits"))
    ELSE IF ~parse_u32(s).ok
    THEN Err(MalformedEncoding("DATE day is not a valid number"))
    ELSE IF parse_u32(s).v = 0
            \/ parse_u32(s).v > (IF month \in {1, 3, 5, 7, 8, 10, 12} THEN 31
                                 ELSE IF month \in {4, 6, 9, 11} THEN 30
                                 ELSE IF month = 2 THEN 29 ELSE 31)
    THEN Err(MalformedEncoding("DATE day out of range"))
    ELSE parse_u32(s)

\* Ok, or the MalformedEncoding error of the first component that fails
validate_iso8601_date(s) ==
    IF s = <<>> THEN Err(MalformedEncoding("DATE string is empty"))
    ELSE With(s[1] = 45, LAMBDA negative:
         With(split(IF negative THEN Tail(s) ELSE s, 45), LAMBDA parts:
             IF Len(parts) = 1
             THEN Bind(validate_year_part(parts[1], negative), LAMBDA y: Ok(0, 0))
             ELSE IF Len(parts) = 2
             THEN Bind(validate_year_part(parts[1], negative), LAMBDA y:
                  Bind(validate_month_part(parts[2]), LAMBDA m: Ok(0, 0)))
             ELSE IF Len(parts) = 3
             THEN Bind(validate_year_part(parts[1], negative), LAMBDA y:
                  Bind(validate_month_part(parts[2]), LAMBDA m:
                  Bind(validate_day_part(parts[3], m.v), LAMBDA day: Ok(0, 0))))
             ELSE Err(MalformedEncoding("DATE has too many components"))))

\* a & b on u8
RECURSIVE BitAnd(_, _)
BitAnd(a, b) ==
    IF a = 0 \/ b = 0 THEN 0
    ELSE 2 * BitAnd(a \div 2, b \div 2) + (IF a % 2 = 1 /\ b % 2 = 1 THEN 1 ELSE 0)
RECURSIVE Pow2(_)
Pow2(n) == IF n = 0 THEN 1 ELSE 2 * Pow2(n - 1)

\* f32::from_le_bytes(chunk).is_nan(): exponent bits all ones, fraction not 0
f32_is_nan(chunk) ==
    /\ BitAnd(chunk[4], 127) = 127
    /\ chunk[3] >= 128
    /\ (BitAnd(chunk[3], 127) # 0 \/ chunk[2] # 0 \/ chunk[1] # 0)
\* some chunk of data.chunks_exact(4) is NaN
has_nan(bytes) ==
    \E k \in 0..((Len(bytes) \div 4) - 1) : f32_is_nan(SubSeq(bytes, 4 * k + 1, 4 * k + 4))

\* encode_value, Value::Embedding arm
encode_embedding(value) ==
    IF Len(value.data) # bytes_for_dims(value.sub_type, value.dims)
    THEN EncErr("EmbeddingDimensionMismatch")
    ELSE IF value.sub_type = Float32 /\ has_nan(value.data) THEN EncErr("FloatIsNan")
    ELSE Enc(<<value.sub_type>> \o write_varint(value.dims) \o value.data, <<>>)

\* "Validate binary embedding has zeros in unused bits" of decode_embedding
unused_bits_set(dims, bytes) ==
    With(8 - (dims % 8), LAMBDA unused_bits:
    With(255 - (Pow2(8 - unused_bits) - 1), LAMBDA mask:
        BitAnd(bytes[Len(bytes)], mask) # 0))

decode_embedding(d, pos) ==
    Bind(read_byte(d, pos, "embedding.sub_type"), LAMBDA sub_type:
        IF sub_type.v \notin {Float32, Int8, Binary}
        THEN Err(InvalidEmbeddingSubType(sub_type.v))
        ELSE Bind(read_varint(d, sub_type.pos, "embedding.dims"), LAMBDA dims:
            IF dims.v > MAX_EMBEDDING_DIMS
            THEN Err(LengthExceedsLimit("embedding.dims", dims.v, MAX_EMBEDDING_DIMS))
            ELSE IF bytes_for_dims(sub_type.v, dims.v) > MAX_EMBEDDING_BYTES
            THEN Err(LengthExceedsLimit("embedding.data",
                                        bytes_for_dims(sub_type.v, dims.v),
                                        MAX_EMBEDDING_BYTES))
            ELSE Bind(read_bytes(d, dims.pos, bytes_for_dims(sub_type.v, dims.v),
                                 "embedding.data"), LAMBDA bytes:
                IF sub_type.v = Float32 /\ has_nan(bytes.v) THEN Err(FloatIsNan)
                ELSE IF sub_type.v = Binary /\ dims.v % 8 # 0
                        /\ unused_bits_set(dims.v, bytes.v)
                THEN Err(MalformedEncoding("binary embedding has non-zero unused bits"))
                ELSE Ok(VEmbedding(sub_type.v, dims.v, bytes.v), bytes.pos))))

\* f64::is_nan on the bit pattern: exponent bits all ones, fraction not 0
f64_is_nan(bits) ==
    /\ BitAnd(bits[8], 127) = 127
    /\ BitAnd(bits[7], 240) = 240
    /\ (BitAnd(bits[7], 15) # 0 \/ \E i \in 1..6 : bits[i] # 0)

\* Writer::write_f64: 8 little-endian bytes, -0.0 written as +0.0
write_f64(bits) ==
    IF bits = <<0, 0, 0, 0, 0, 0, 0, 128>> THEN <<0, 0, 0, 0, 0, 0, 0, 0>> ELSE bits

\* Reader::read_f64: 8 little-endian bytes, NaN rejected
read_f64(d, pos, ctx) ==
    Bind(read_bytes(d, pos, 8, ctx), LAMBDA bytes:
        IF f64_is_nan(bytes.v) THEN Err(FloatIsNan) ELSE Ok(bytes.v, bytes.pos))

\* Faulty variant: the NaN test of the Float64 arm is missing.
encode_float64_unchecked(value) ==
    Enc(write_f64(value.value) \o write_varint(0), <<>>)
\* Faulty variant: the bytes of the value are written as they are.
encode_float64_raw(value) ==
    IF f64_is_nan(value.value) THEN EncErr("FloatIsNan")
    ELSE Enc(value.value \o write_varint(0), <<>>)
\* encode_value, Value::Float64 arm; the value has no unit (unit index 0)
encode_float64(value) ==
    IF f64_is_nan(value.value) THEN EncErr("FloatIsNan")
    ELSE Enc(write_f64(value.value) \o write_varint(0), <<>>)

\* the units dictionary is empty: only unit index 0 (no unit) resolves
decode_float64(d, pos, dicts) ==
    Bind(read_f64(d, pos, "float64"), LAMBDA value:
    Bind(read_varint(d, value.pos, "float64.unit"), LAMBDA unit_index:
        IF unit_index.v = 0
        THEN Ok(VFloat64(value.v), unit_index.pos)
        ELSE Err(IndexOutOfBounds("units", unit_index.v, 1))))

is_big_mantissa_zero(bytes) == \A i \in 1..Len(bytes) : bytes[i] = 0

\* remainder = (remainder * 6 + byte) % 10 over the bytes; `invert` is 255
\* where the loop takes !byte and 0 where it takes byte
RECURSIVE fold_mod_10(_, _, _)
fold_mod_10(bytes, remainder, invert) ==
    IF bytes = <<>> THEN remainder
    ELSE fold_mod_10(Tail(bytes),
             (remainder * 6
                + (IF invert = 255 THEN 255 - Head(bytes) ELSE Head(bytes))) % 10,
             invert)

\* Faulty variant: the 1 of the two's complement negation is not added.
twos_complement_abs_mod_10_inverted(bytes) == fold_mod_10(bytes, 0, 255)
twos_complement_abs_mod_10(bytes) == (fold_mod_10(bytes, 0, 255) + 1) % 10

is_big_mantissa_divisible_by_10(bytes) ==
    IF bytes = <<>> THEN TRUE
    ELSE IF bytes[1] >= 128 THEN twos_complement_abs_mod_10(bytes) = 0
    ELSE fold_mod_10(bytes, 0, 0) = 0

\* Faulty variant: a Big mantissa is tested by its last byte.
not_normalized_last_byte(exponent, mantissa) ==
    IF mantissa.form = "I64"
    THEN IF mantissa.v = 0 THEN exponent # 0 ELSE Rem(mantissa.v, 10) = 0
    ELSE IF is_big_mantissa_zero(mantissa.bytes) THEN exponent # 0
         ELSE mantissa.bytes[Len(mantissa.bytes)] = 0

\* "Validate normalization" of encode_decimal and of decode_decimal: TRUE
\* where they return DecimalNotNormalized
not_normalized(exponent, mantissa) ==
    IF mantissa.form = "I64"
    THEN IF mantissa.v = 0 THEN exponent # 0 ELSE Rem(mantissa.v, 10) = 0
    ELSE IF is_big_mantissa_zero(mantissa.bytes) THEN exponent # 0
         ELSE is_big_mantissa_divisible_by_10(mantissa.bytes)

encode_decimal(exponent, mantissa) ==
    IF not_normalized(exponent, mantissa) THEN EncErr("DecimalNotNormalized")
    ELSE Enc(write_signed_varint(exponent)
               \o (IF mantissa.form = "I64"
                   THEN <<0>> \o write_signed_varint(mantissa.v)
                   ELSE <<1>> \o write_varint(Len(mantissa.bytes)) \o mantissa.bytes),
             <<>>)

\* Reader::read_varint with the u64 held as its 64 bits, least significant
\* first, so that values beyond 31 bits are represented
Bits7(b) == [k \in 1..7 |-> (b \div Pow2(k - 1)) % 2]
Pad64(bits) == [k \in 1..64 |-> IF k <= Len(bits) THEN bits[k] ELSE 0]
RECURSIVE read_varint_bits_loop(_, _, _, _, _)
read_varint_bits_loop(d, pos, i, acc, ctx) ==
    IF i >= MAX_VARINT_BYTES THEN Err(VarintTooLong)
    ELSE IF pos >= DLen(d) THEN Err(UnexpectedEof(ctx))
    ELSE With(DAt(d, pos), LAMBDA b:
             IF i = MAX_VARINT_BYTES - 1 /\ b % 128 > 1 THEN Err(VarintTooLong)
             ELSE IF b < 128 THEN Ok(Pad64(acc \o Bits7(b)), pos + 1)
             ELSE read_varint_bits_loop(d, pos + 1, i + 1, acc \o Bits7(b), ctx))
read_varint_bits(d, pos, ctx) == read_varint_bits_loop(d, pos, 0, <<>>, ctx)

\* (u >> 1) ^ -(u & 1) on the 64 bits of u: the 64 bits of the i64
unzigzag_bits(u) == [k \in 1..64 |-> IF k = 64 THEN u[1] ELSE (u[k + 1] + u[1]) % 2]
RECURSIVE BitsValue(_, _)
BitsValue(bits, n) ==
    IF n = 0 THEN 0 ELSE bits[n] * Pow2(n - 1) + BitsValue(bits, n - 1)
\* `as i32` of an i64: its low 32 bits, read as two's complement
as_i32(bits) ==
    IF bits[32] = 1
    THEN (BitsValue(bits, 31) - 1073741824) - 1073741824
    ELSE BitsValue(bits, 31)

\* reader.read_signed_varint("decimal.exponent")? as i32
decode_exponent(d, pos) ==
    Bind(read_varint_bits(d, pos, "decimal.exponent"), LAMBDA u:
        Ok(as_i32(unzigzag_bits(u.v)), u.pos))

\* the mantissa of decode_decimal, after its mantissa_type byte
decode_mantissa(d, pos, mantissa_type) ==
    IF mantissa_type = 0
    THEN Bind(read_signed_varint(d, pos, "decimal.mantissa"), LAMBDA v:
             Ok(I64(v.v), v.pos))
    ELSE IF mantissa_type = 1
    THEN Bind(read_varint(d, pos, "decimal.mantissa_len"), LAMBDA len:
         Bind(read_bytes(d, len.pos, len.v, "decimal.mantissa_bytes"), LAMBDA bytes:
             IF Len(bytes.v) > 1
                /\ ((bytes.v[1] = 0 /\ bytes.v[2] < 128)
                      \/ (bytes.v[1] = 255 /\ bytes.v[2] >= 128))
             THEN Err(DecimalMantissaNotMinimal)
             ELSE Ok(Big(bytes.v), bytes.pos)))
    ELSE Err(MalformedEncoding("invalid decimal mantissa type"))

\* the units dictionary is empty: only unit index 0 (no unit) resolves
decode_decimal(d, pos, dicts) ==
    Bind(decode_exponent(d, pos), LAMBDA exponent:
    Bind(read_byte(d, exponent.pos, "decimal.mantissa_type"), LAMBDA mantissa_type:
    Bind(decode_mantissa(d, mantissa_type.pos, mantissa_type.v), LAMBDA mantissa:
        IF not_normalized(exponent.v, mantissa.v) THEN Err(DecimalNotNormalized)
        ELSE Bind(read_varint(d, mantissa.pos, "decimal.unit"), LAMBDA unit_index:
                 IF unit_index.v = 0
                 THEN Ok(VDecimal(exponent.v, mantissa.v), unit_index.pos)
                 ELSE Err(IndexOutOfBounds("units", unit_index.v, 1))))))

encode_value(value, b) ==
    CASE value.tag = "Bool" -> Enc(<<IF value.b THEN 1 ELSE 0>>, b)
      [] value.tag = "Float64" ->
            Bind(encode_float64(value), LAMBDA e: Enc(e.bytes, b))
      [] value.tag = "Decimal" ->
            Bind(encode_decimal(value.exponent, value.mantissa), LAMBDA e:
                Enc(e.bytes \o write_varint(0), b))
      [] value.tag = "Embedding" ->
            Bind(encode_embedding(value), LAMBDA e: Enc(e.bytes, b))
      [] value.tag = "Text" ->
            With(add_language(b, value.language), LAMBDA l:
                Enc(write_string(value.value) \o write_varint(l.idx), l.b))

encode_property_value(pv, b, dt) ==
    With(add_property(b, pv.property, dt), LAMBDA p:
        Bind(encode_value(pv.value, p.b), LAMBDA v:
            Enc(write_varint(p.idx) \o v.bytes, v.b)))

IsAsciiAlphanumeric(c) == c \in 48..57 \/ c \in 65..90 \/ c \in 97..122

validate_position(pos) ==
    IF Len(pos) > MAX_POSITION_LEN THEN EncErr("PositionTooLong")
    ELSE IF \E i \in 1..Len(pos) : ~IsAsciiAlphanumeric(pos[i])
         THEN EncErr("InvalidPositionChar")
    ELSE Enc(<<>>, <<>>)

decode_bool(d, pos) ==
    Bind(read_byte(d, pos, "bool"), LAMBDA r:
        IF r.v = 0 THEN Ok(VBool(FALSE), r.pos)
        ELSE IF r.v = 1 THEN Ok(VBool(TRUE), r.pos)
        ELSE Err(InvalidBool(r.v)))

decode_text(d, pos, dicts) ==
    Bind(read_string(d, pos, MAX_STRING_LEN, "text"), LAMBDA s:
        Bind(read_varint(d, s.pos, "text.language"), LAMBDA li:
            IF li.v = 0 THEN Ok(VText(s.v, None), li.pos)
            ELSE IF li.v - 1 >= Len(dicts.languages)
                 THEN Err(IndexOutOfBounds("languages", li.v,
                                           Len(dicts.languages) + 1))
            ELSE Ok(VText(s.v, Some(dicts.languages[li.v])), li.pos)))

decode_value(d, pos, dt, dicts) ==
    CASE dt = DT_Bool -> decode_bool(d, pos)
      [] dt = DT_Float64 -> decode_float64(d, pos, dicts)
      [] dt = DT_Decimal -> decode_decimal(d, pos, dicts)
      [] dt = DT_Embedding -> decode_embedding(d, pos)
      [] dt = DT_Text -> decode_text(d, pos, dicts)

\* Faulty variant: the wire index is reduced into the dictionary's range
\* instead of being checked against it.
decode_property_value_wrapping(d, pos, dicts) ==
    Bind(read_varint(d, pos, "property"), LAMBDA pi:
        IF dicts.properties = <<>>
        THEN Err(IndexOutOfBounds("properties", pi.v, 0))
        ELSE With(dicts.properties[(pi.v % Len(dicts.properties)) + 1], LAMBDA entry:
                 Bind(decode_value(d, pi.pos, entry[2], dicts),
                      LAMBDA v: Ok(PV(entry[1], v.v), v.pos))))

decode_property_value(d, pos, dicts) ==
    Bind(read_varint(d, pos, "property"), LAMBDA pi:
        IF pi.v >= Len(dicts.properties)
        THEN Err(IndexOutOfBounds("properties", pi.v, Len(dicts.properties)))
        ELSE Bind(decode_value(d, pi.pos, dicts.properties[pi.v + 1][2], dicts),
                  LAMBDA v: Ok(PV(dicts.properties[pi.v + 1][1], v.v), v.pos)))

decode_position(d, pos) ==
    Bind(read_string(d, pos, MAX_POSITION_LEN, "position"), LAMBDA s:
        IF \E i \in 1..Len(s.v) : ~IsAsciiAlphanumeric(s.v[i])
        THEN Err(InvalidPositionChar(
                 s.v[CHOOSE i \in 1..Len(s.v) :
                         /\ ~IsAsciiAlphanumeric(s.v[i])
                         /\ \A j \in 1..(i - 1) : IsAsciiAlphanumeric(s.v[j])]))
        ELSE s)

(***************************************************************************)
(* Identifiers (model/id.rs).  A string is the sequence of its UTF-8 bytes. *)
(***************************************************************************)
\* a | b on u8
BitOr(a, b) == a + b - BitAnd(a, b)

\* Faulty variant: the version and variant bits are or-ed in without the
\* masks that clear the bits they replace.
derived_uuid_unmasked(input, digest) ==
    [i \in 1..ID_LEN |->
        IF i = 7 THEN BitOr(digest[7], 128)
        ELSE IF i = 9 THEN BitOr(digest[9], 128)
        ELSE digest[i]]
\* digest stands for Sha256::digest(input), which is not computed here: it
\* may be any 32 bytes.  id[6] and id[8] of the code are elements 7 and 9.
derived_uuid(input, digest) ==
    [i \in 1..ID_LEN |->
        IF i = 7 THEN BitOr(BitAnd(digest[7], 15), 128)
        ELSE IF i = 9 THEN BitOr(BitAnd(digest[9], 63), 128)
        ELSE digest[i]]

unique_relation_id(from_id, to_id, type_id, digest) ==
    derived_uuid(from_id \o to_id \o type_id, digest)

\* "grc20:genesis:"
GenesisPrefix == <<103, 114, 99, 50, 48, 58, 103, 101, 110, 101, 115, 105, 115, 58>>
genesis_id(name, digest) == derived_uuid(GenesisPrefix \o name, digest)

\* char::to_digit(16); -1 stands for None
to_digit_16(c) ==
    IF c \in 48..57 THEN c - 48
    ELSE IF c \in 97..102 THEN c - 87
    ELSE IF c \in 65..70 THEN c - 55
    ELSE -1

\* std::str::from_utf8 succeeds on a chunk of hex.as_bytes(): ASCII bytes, or
\* one two-byte character
from_utf8_ok(chunk) ==
    \/ \A i \in 1..Len(chunk) : chunk[i] < 128
    \/ Len(chunk) = 2 /\ chunk[1] \in 194..223 /\ chunk[2] \in 128..191

RECURSIVE HexDigitsValue(_)
HexDigitsValue(ds) ==
    IF ds = <<>> THEN 0
    ELSE 16 * HexDigitsValue(SubSeq(ds, 1, Len(ds) - 1)) + to_digit_16(ds[Len(ds)])

\* u8::from_str_radix(src, 16): an optional '+', then hex digits whose value
\* fits u8; a '-' is not a digit of an unsigned type
u8_from_str_radix(src) ==
    IF src = <<>> THEN Err("Empty")
    ELSE IF Len(src) = 1 /\ src[1] \in {43, 45} THEN Err("InvalidDigit")
    ELSE With(IF src[1] = 43 THEN Tail(src) ELSE src, LAMBDA digits:
        IF \E i \in 1..Len(digits) : to_digit_16(digits[i]) < 0 THEN Err("InvalidDigit")
        ELSE IF HexDigitsValue(digits) > 255 THEN Err("PosOverflow")
        ELSE Ok(HexDigitsValue(digits), 0))

NotHyphen(c) == c # 45
\* hex.as_bytes().chunks(2): chunk i, counted from 0
HexChunk(hex, i) == SubSeq(hex, 2 * i + 1, 2 * i + 2)

parse_id(s) ==
    With(SelectSeq(s, NotHyphen), LAMBDA hex:
        IF Len(hex) # 2 * ID_LEN THEN None
        ELSE IF \E i \in 0..(ID_LEN - 1) :
                    \/ ~from_utf8_ok(HexChunk(hex, i))
                    \/ ~u8_from_str_radix(HexChunk(hex, i)).ok
        THEN None
        ELSE Some([i \in 1..ID_LEN |-> u8_from_str_radix(HexChunk(hex, i - 1)).v]))

(***************************************************************************)
(* Op codec (codec/op.rs): a 1-byte tag, then the body; every property,    *)
(* relation type, language and object is written as a dictionary index.    *)
(*   1 CreateEntity    id, varint n, n property values                     *)
(*   2 UpdateEntity    object index, set, add, remove vectors of property  *)
(*                     values, unset vector of property indices            *)
(*   3 DeleteEntity    object index                                        *)
(*   4 CreateRelation  mode byte (0 unique, 1 explicit id), [id], relation *)
(*                     type index, from index, to index, position flag,    *)
(*                     [position]                                          *)
(*   5 UpdateRelation  object index, position flag, [position]             *)
(*   6 DeleteRelation  object index                                        *)
(*   7 CreateProperty  id, data type byte                                  *)
(***************************************************************************)
\* the data type a value is written with: the declared one, else the value's own
type_of(pv, property_types) ==
    IF HashMap_contains(property_types, pv.property)
    THEN HashMap_get(property_types, pv.property)
    ELSE data_type(pv.value)

RECURSIVE encode_property_values(_, _, _, _)
encode_property_values(values, b, property_types, acc) ==
    IF values = <<>> THEN Enc(acc, b)
    ELSE Bind(encode_property_value(Head(values), b,
                                    type_of(Head(values), property_types)),
              LAMBDA r: encode_property_values(Tail(values), r.b, property_types,
                                               acc \o r.bytes))

encode_value_vec(values, b, property_types) ==
    encode_property_values(values, b, property_types, write_varint(Len(values)))

RECURSIVE encode_unset(_, _, _)
encode_unset(unset, b, acc) ==
    IF unset = <<>> THEN Enc(acc, b)
    ELSE With(add_property(b, Head(unset), DT_Bool), LAMBDA p:
             encode_unset(Tail(unset), p.b, acc \o write_varint(p.idx)))

encode_opt_position(position) ==
    IF position = None THEN Enc(<<0>>, <<>>)
    ELSE Bind(validate_position(position[1]), LAMBDA v:
             Enc(<<1>> \o write_string(position[1]), <<>>))

encode_update_entity(op, b, property_types) ==
    With(add_object(b, op.id), LAMBDA o:
    Bind(encode_value_vec(op.set_properties, o.b, property_types), LAMBDA s1:
    Bind(encode_value_vec(op.add_values, s1.b, property_types), LAMBDA s2:
    Bind(encode_value_vec(op.remove_values, s2.b, property_types), LAMBDA s3:
    Bind(encode_unset(op.unset_properties, s3.b,
                      write_varint(Len(op.unset_properties))), LAMBDA s4:
        Enc(<<2>> \o write_varint(o.idx) \o s1.bytes \o s2.bytes
                \o s3.bytes \o s4.bytes, s4.b))))))

encode_create_relation(op, b) ==
    With(add_relation_type(b, op.relation_type), LAMBDA t:
    With(add_object(t.b, op.from), LAMBDA f:
    With(add_object(f.b, op.to), LAMBDA g:
    Bind(encode_opt_position(op.position), LAMBDA p:
        Enc(<<4>> \o (IF op.id = None THEN <<0>> ELSE <<1>> \o write_id(op.id[1]))
                \o write_varint(t.idx) \o write_varint(f.idx)
                \o write_varint(g.idx) \o p.bytes, g.b)))))

encode_object_op(tag, op, b) ==
    With(add_object(b, op.id), LAMBDA o: Enc(<<tag>> \o write_varint(o.idx), o.b))

encode_op(op, b, property_types) ==
    CASE op.op = "CreateEntity" ->
            Bind(encode_value_vec(op.values, b, property_types), LAMBDA r:
                Enc(<<1>> \o write_id(op.id) \o r.bytes, r.b))
      [] op.op = "UpdateEntity" -> encode_update_entity(op, b, property_types)
      [] op.op = "DeleteEntity" -> encode_object_op(3, op, b)
      [] op.op = "CreateRelation" -> encode_create_relation(op, b)
      [] op.op = "UpdateRelation" ->
            With(add_object(b, op.id), LAMBDA o:
            Bind(encode_opt_position(op.position), LAMBDA p:
                Enc(<<5>> \o write_varint(o.idx) \o p.bytes, o.b)))
      [] op.op = "DeleteRelation" -> encode_object_op(6, op, b)
      [] op.op = "CreateProperty" ->
            Enc(<<7>> \o write_id(op.id) \o <<op.data_type>>, b)

\* a dictionary index read from the wire, resolved against list `dict`
read_index(d, pos, dict, dname, ctx) ==
    Bind(read_varint(d, pos, ctx), LAMBDA i:
        IF i.v >= Len(dict) THEN Err(IndexOutOfBounds(dname, i.v, Len(dict)))
        ELSE Ok(dict[i.v + 1], i.pos))

RECURSIVE decode_property_values(_, _, _, _, _)
decode_property_values(d, pos, n, dicts, acc) ==
    IF n = 0 THEN Ok(acc, pos)
    ELSE Bind(decode_property_value(d, pos, dicts), LAMBDA r:
             decode_property_values(d, r.pos, n - 1, dicts, Append(acc, r.v)))

decode_value_vec(d, pos, dicts, ctx) ==
    Bind(read_varint(d, pos, ctx), LAMBDA n:
        IF n.v > MAX_VALUES_PER_ENTITY
        THEN Err(LengthExceedsLimit(ctx, n.v, MAX_VALUES_PER_ENTITY))
        ELSE decode_property_values(d, n.pos, n.v, dicts, <<>>))

RECURSIVE decode_unset(_, _, _, _, _)
decode_unset(d, pos, n, dicts, acc) ==
    IF n = 0 THEN Ok(acc, pos)
    ELSE Bind(read_index(d, pos, PropIds(dicts.properties), "properties",
                         "unset_properties"), LAMBDA r:
             decode_unset(d, r.pos, n - 1, dicts, Append(acc, r.v)))

decode_unset_vec(d, pos, dicts) ==
    Bind(read_varint(d, pos, "unset_properties"), LAMBDA n:
        IF n.v > MAX_VALUES_PER_ENTITY
        THEN Err(LengthExceedsLimit("unset_properties", n.v,
                                    MAX_VALUES_PER_ENTITY))
        ELSE decode_unset(d, n.pos, n.v, dicts, <<>>))

decode_opt_position(d, pos) ==
    Bind(read_byte(d, pos, "has_position"), LAMBDA f:
        IF f.v = 0 THEN Ok(None, f.pos)
        ELSE IF f.v = 1
             THEN Bind(decode_position(d, f.pos), LAMBDA p: Ok(Some(p.v), p.pos))
        ELSE Err(MalformedEncoding("invalid position flag")))

decode_object_op(d, pos, dicts, opname) ==
    Bind(read_index(d, pos, dicts.objects, "objects", "object"), LAMBDA o:
        Ok([op |-> opname, id |-> o.v], o.pos))

decode_create_entity(d, pos, dicts) ==
    Bind(read_id(d, pos, "entity_id"), LAMBDA id:
    Bind(decode_value_vec(d, id.pos, dicts, "values"), LAMBDA vs:
        Ok(CreateEntity(id.v, vs.v), vs.pos)))

decode_update_entity(d, pos, dicts) ==
    Bind(read_index(d, pos, dicts.objects, "objects", "object"), LAMBDA o:
    Bind(decode_value_vec(d, o.pos, dicts, "set_properties"), LAMBDA s1:
    Bind(decode_value_vec(d, s1.pos, dicts, "add_values"), LAMBDA s2:
    Bind(decode_value_vec(d, s2.pos, dicts, "remove_values"), LAMBDA s3:
    Bind(decode_unset_vec(d, s3.pos, dicts), LAMBDA s4:
        Ok(UpdateEntity(o.v, s1.v, s2.v, s3.v, s4.v), s4.pos))))))

decode_relation_id(d, m) ==
    IF m.v = 0 THEN Ok(None, m.pos)
    ELSE Bind(read_id(d, m.pos, "relation_id"), LAMBDA r: Ok(Some(r.v), r.pos))

decode_create_relation(d, pos, dicts) ==
    Bind(read_byte(d, pos, "relation_id_mode"), LAMBDA m:
        IF m.v > 1 THEN Err(MalformedEncoding("invalid relation id mode"))
        ELSE
    Bind(decode_relation_id(d, m), LAMBDA id:
    Bind(read_index(d, id.pos, dicts.relation_types, "relation_types",
                    "relation_type"), LAMBDA t:
    Bind(read_index(d, t.pos, dicts.objects, "objects", "from"), LAMBDA f:
    Bind(read_index(d, f.pos, dicts.objects, "objects", "to"), LAMBDA g:
    Bind(decode_opt_position(d, g.pos), LAMBDA p:
        Ok(CreateRelation(id.v, f.v, g.v, t.v, p.v), p.pos)))))))

decode_update_relation(d, pos, dicts) ==
    Bind(read_index(d, pos, dicts.objects, "objects", "object"), LAMBDA o:
    Bind(decode_opt_position(d, o.pos), LAMBDA p:
        Ok(UpdateRelation(o.v, p.v), p.pos)))

decode_create_property(d, pos) ==
    Bind(read_id(d, pos, "property_id"), LAMBDA id:
    Bind(read_byte(d, id.pos, "data_type"), LAMBDA t:
        IF DataType_from_u8(t.v) = None THEN Err(InvalidDataType(t.v))
        ELSE Ok(CreateProperty(id.v, t.v), t.pos)))

decode_op(d, pos, dicts) ==
    Bind(read_byte(d, pos, "op_type"), LAMBDA tag:
        CASE tag.v = 1 -> decode_create_entity(d, tag.pos, dicts)
          [] tag.v = 2 -> decode_update_entity(d, tag.pos, dicts)
          [] tag.v = 3 -> decode_object_op(d, tag.pos, dicts, "DeleteEntity")
          [] tag.v = 4 -> decode_create_relation(d, tag.pos, dicts)
          [] tag.v = 5 -> decode_update_relation(d, tag.pos, dicts)
          [] tag.v = 6 -> decode_object_op(d, tag.pos, dicts, "DeleteRelation")
          [] tag.v = 7 -> decode_create_property(d, tag.pos)
          [] OTHER -> Err(MalformedEncoding("unknown op type")))

(***************************************************************************)
(* encode_edit (codec/edit.rs)                                             *)
(***************************************************************************)
RECURSIVE write_properties(_)
write_properties(props) ==
    IF props = <<>> THEN <<>>
    ELSE write_id(Head(props)[1]) \o <<Head(props)[2]>> \o write_properties(Tail(props))

RECURSIVE seed_properties(_, _)
seed_properties(props, b) ==
    IF props = <<>> THEN b
    ELSE seed_properties(Tail(props),
                         add_property(b, Head(props)[1], Head(props)[2]).b)

RECURSIVE seed_relation_types(_, _)
seed_relation_types(ids, b) ==
    IF ids = <<>> THEN b
    ELSE seed_relation_types(Tail(ids), add_relation_type(b, Head(ids)).b)

RECURSIVE seed_languages(_, _)
seed_languages(ids, b) ==
    IF ids = <<>> THEN b
    ELSE seed_languages(Tail(ids), add_language(b, Some(Head(ids))).b)

RECURSIVE seed_objects(_, _)
seed_objects(ids, b) ==
    IF ids = <<>> THEN b
    ELSE seed_objects(Tail(ids), add_object(b, Head(ids)).b)

\* the builder re-created for pass 2, pre-populated in the order of pass 1
seed_builder(dicts) ==
    seed_objects(dicts.objects,
        seed_languages(dicts.languages,
            seed_relation_types(dicts.relation_types,
                seed_properties(dicts.properties, DictionaryBuilder_new))))

RECURSIVE encode_ops(_, _, _, _)
encode_ops(ops, b, property_types, acc) ==
    IF ops = <<>> THEN Enc(acc, b)
    ELSE Bind(encode_op(Head(ops), b, property_types), LAMBDA r:
             encode_ops(Tail(ops), r.b, property_types, acc \o r.bytes))

\* magic, version, header, dictionaries and the op count
write_head(e, dicts) ==
    MAGIC_UNCOMPRESSED \o <<FORMAT_VERSION>>
        \o write_id(e.id) \o write_string(e.name)
        \o write_id_vec(e.authors) \o write_signed_varint(e.created_at)
        \o write_varint(Len(dicts.properties))
        \o write_properties(dicts.properties)
        \o write_id_vec(dicts.relation_types)
        \o write_id_vec(dicts.languages)
        \o write_id_vec(dicts.objects)
        \o write_varint(Len(e.ops))

\* `seed`: the RandomState the call's HashMap is created with
encode_edit(e, seed) ==
    With(collect_edit_ids(e, seed), LAMBDA st:
    With(build(st.builder), LAMBDA dicts:
        encode_ops(e.ops, seed_builder(dicts), st.property_types,
                   write_head(e, dicts))))

(***************************************************************************)
(* zstd (external crate), as a lossless block codec: a frame is the frame  *)
(* magic followed by blocks <<run, byte>>, each standing for `run` copies  *)
(* of `byte`; the level bounds the run length the compressor looks for.    *)
(***************************************************************************)
ZSTD_MAGIC == <<40, 181, 47, 253>>
ZstdMaxRun(level) == IF level <= 1 THEN 1 ELSE 255

\* first index of the run of equal bytes that holds s[i]
RunStart(s, i) ==
    CHOOSE j \in 1..i :
        /\ \A k \in j..i : s[k] = s[i]
        /\ (j = 1 \/ s[j - 1] # s[i])
\* the places where a block starts: a new byte value, or a run cut at `max`
BlockStarts(s, max) ==
    LET IsStart(i) == i = 1 \/ s[i] # s[i - 1] \/ (i - RunStart(s, i)) % max = 0
    IN  SelectSeq([i \in 1..Len(s) |-> i], IsStart)
zstd_blocks(s, max) ==
    With(BlockStarts(s, max) \o <<Len(s) + 1>>, LAMBDA starts:
        [x \in 1..(2 * (Len(starts) - 1)) |->
            IF x % 2 = 1 THEN starts[(x + 1) \div 2 + 1] - starts[(x + 1) \div 2]
            ELSE s[starts[x \div 2]]])

zstd_encode_all(s, level) == ZSTD_MAGIC \o zstd_blocks(s, ZstdMaxRun(level))

Repeat(byte, n) == [i \in 1..n |-> byte]

\* one read of the decoder: expands at most `blocks` blocks of `stream`
RECURSIVE zstd_read(_, _, _)
zstd_read(stream, blocks, acc) ==
    IF blocks = 0 \/ stream = <<>> THEN [ok |-> TRUE, out |-> acc, rest |-> stream]
    ELSE IF Len(stream) < 2 \/ stream[1] = 0 THEN [ok |-> FALSE]
    ELSE zstd_read(SubSeq(stream, 3, Len(stream)), blocks - 1,
                   acc \o Repeat(stream[2], stream[1]))

encode_edit_compressed(e, level, seed) ==
    Bind(encode_edit(e, seed), LAMBDA u:
        Enc(MAGIC_COMPRESSED \o write_varint(Len(u.bytes))
                \o zstd_encode_all(u.bytes, level), u.b))

(***************************************************************************)
(* The Edits handed to the encoder                                         *)
(***************************************************************************)
P1 == Id(10)
P2 == Id(11)
EntA == Id(3)
EntB == Id(4)
LangA == Id(7)
RelT == Id(8)
RelA == Id(9)
TextA == <<97>>

OpUniverse ==
    { CreateProperty(P1, DT_Text),
      CreateProperty(P1, DT_Bool),
      CreateEntity(EntA, <<PV(P1, VText(TextA, Some(LangA)))>>),
      CreateEntity(EntB, <<PV(P1, VBool(TRUE)), PV(P2, VText(<<>>, None))>>),
      UpdateEntity(EntB, <<PV(P2, VText(TextA, None))>>, <<>>,
                   <<PV(P2, VText(<<>>, Some(LangA)))>>, <<P1>>),
      UpdateEntity(EntA, <<>>, <<PV(P2, VBool(FALSE))>>, <<>>, <<>>),
      DeleteEntity(EntA),
      CreateRelation(Some(RelA), EntA, EntB, RelT, Some(<<97, 48>>)),
      CreateRelation(None, EntB, EntA, RelT, None),
      UpdateRelation(RelA, Some(<<90>>)),
      DeleteRelation(RelA) }

OpSeqs == UNION {[1..n -> OpUniverse] : n \in 0..MaxOps}

Headers ==
    { [id |-> Id(0), name |-> <<>>, authors |-> <<>>, created_at |-> 0],
      [id |-> Id(1), name |-> <<116>>, authors |-> <<Id(2)>>, created_at |-> -3] }

\* every op sequence under the empty header; the short ones under the other
Edits ==
    { Edit(h.id, h.name, h.authors, h.created_at, ops) : h \in Headers, ops \in OpSeqs }
        \ { e \in { Edit(Id(1), <<116>>, <<Id(2)>>, -3, ops) : ops \in OpSeqs } :
                Len(e.ops) > 1 }
NoEdit == Edit(<<>>, <<>>, <<>>, 0, <<>>)
Levels == {1, 3}
\* RandomState values: two maps created with different ones iterate differently
Seeds == {0, 1}

(***************************************************************************)
(* Semantic validation (validate/mod.rs)                                   *)
(***************************************************************************)
TypeMismatch(property, expected) ==
    [type |-> "TypeMismatch", property |-> property, expected |-> expected]
DataTypeInconsistent(property, schema_type, declared_type) ==
    [type |-> "DataTypeInconsistent", property |-> property,
     schema |-> schema_type, declared |-> declared_type]

\* SchemaContext { properties: HashMap<Id, DataType> }
SchemaContext_new == [properties |-> HashMap_new(0)]
SchemaContext_add_property(schema, id, dt) ==
    [schema EXCEPT !.properties = HashMap_insert(@, id, dt)]
\* Faulty variant: a property the schema does not hold is given the
\* placeholder type Bool.
get_property_type_placeholder(schema, id) ==
    IF HashMap_contains(schema.properties, id)
    THEN Some(HashMap_get(schema.properties, id)) ELSE Some(DT_Bool)

get_property_type(schema, id) ==
    IF HashMap_contains(schema.properties, id)
    THEN Some(HashMap_get(schema.properties, id)) ELSE None

\* Faulty variant: the error carries the data type of the value.
RECURSIVE validate_property_values_actual(_, _)
validate_property_values_actual(values, schema) ==
    IF values = <<>> THEN Ok(0, 0)
    ELSE With(get_property_type(schema, Head(values).property), LAMBDA expected:
             IF expected # None /\ expected[1] # data_type(Head(values).value)
             THEN Err(TypeMismatch(Head(values).property,
                                   data_type(Head(values).value)))
             ELSE validate_property_values_actual(Tail(values), schema))

RECURSIVE validate_property_values(_, _)
validate_property_values(values, schema) ==
    IF values = <<>> THEN Ok(0, 0)
    ELSE With(get_property_type(schema, Head(values).property), LAMBDA expected:
             IF expected # None /\ expected[1] # data_type(Head(values).value)
             THEN Err(TypeMismatch(Head(values).property, expected[1]))
             ELSE validate_property_values(Tail(values), schema))

\* Faulty variant: the declaration is adopted without looking at the schema.
check_declared_type_adopted(schema, cp) == Ok(0, 0)

\* validate_edit, lines 52-60: a CreateProperty against the external schema
check_declared_type(schema, cp) ==
    With(get_property_type(schema, cp.id), LAMBDA existing:
        IF existing # None /\ existing[1] # cp.data_type
        THEN Err(DataTypeInconsistent(cp.id, existing[1], cp.data_type))
        ELSE Ok(0, 0))

\* the loop of validate_edit over the ops not yet visited
RECURSIVE validate_ops(_, _, _)
validate_ops(todo, schema, local_schema) ==
    IF todo = <<>> THEN Ok(0, 0)
    ELSE With(Head(todo), LAMBDA op:
        CASE op.op = "CreateProperty" ->
                Bind(check_declared_type(schema, op), LAMBDA x:
                    validate_ops(Tail(todo), schema,
                        SchemaContext_add_property(local_schema, op.id, op.data_type)))
          [] op.op = "CreateEntity" ->
                Bind(validate_property_values(op.values, local_schema), LAMBDA x:
                    validate_ops(Tail(todo), schema, local_schema))
          [] op.op = "UpdateEntity" ->
                Bind(validate_property_values(op.set_properties, local_schema), LAMBDA x:
                Bind(validate_property_values(op.add_values, local_schema), LAMBDA y:
                Bind(validate_property_values(op.remove_values, local_schema), LAMBDA z:
                    validate_ops(Tail(todo), schema, local_schema))))
          [] OTHER -> validate_ops(Tail(todo), schema, local_schema))

\* Faulty variant: the local schema is built from every CreateProperty of the
\* edit before the ops are walked.
RECURSIVE declare_all(_, _)
declare_all(todo, local_schema) ==
    IF todo = <<>> THEN local_schema
    ELSE declare_all(Tail(todo),
             IF Head(todo).op = "CreateProperty"
             THEN SchemaContext_add_property(local_schema, Head(todo).id,
                                             Head(todo).data_type)
             ELSE local_schema)
validate_edit_prescanned(e, schema) ==
    validate_ops(e.ops, schema, declare_all(e.ops, schema))
validate_edit(e, schema) == validate_ops(e.ops, schema, schema)

\* external schemas handed to validate_edit
Schemas ==
    { SchemaContext_new,
      SchemaContext_add_property(SchemaContext_new, P1, DT_Text),
      SchemaContext_add_property(SchemaContext_new, P1, DT_Bool),
      SchemaContext_add_property(
          SchemaContext_add_property(SchemaContext_new, P1, DT_Text), P2, DT_Bool) }

\* every <<property, data type>> an edit states: CreateProperty and values
ValuesOf(op) ==
    CASE op.op = "CreateEntity" -> op.values
      [] op.op = "UpdateEntity" ->
            op.set_properties \o op.add_values \o op.remove_values
      [] OTHER -> <<>>
PropUses(e) ==
    UNION { {<<ValuesOf(e.ops[i])[k].property, data_type(ValuesOf(e.ops[i])[k].value)>> :
                 k \in 1..Len(ValuesOf(e.ops[i]))}
            \cup (IF e.ops[i].op = "CreateProperty"
                  THEN {<<e.ops[i].id, e.ops[i].data_type>>} ELSE {})
            : i \in 1..Len(e.ops) }
\* each property is used with one data type
ValidEdit(e) == \A u, v \in PropUses(e) : u[1] = v[1] => u[2] = v[2]

(***************************************************************************)
(* Values handed to the value codec                                        *)
(***************************************************************************)
MaxMantissaLen == 2
Exponents == {-2, 0, 3}
MantissaBytes == {0, 1, 10, 20, 128, 246, 255}
Mantissas ==
    {I64(v) : v \in {0, 1, -1, 7, 10, -10, 25, 100, -130}}
        \cup {Big(b) : b \in UNION {[1..n -> MantissaBytes] : n \in 0..MaxMantissaLen}}
Decimals == {VDecimal(e, m) : e \in Exponents, m \in Mantissas}
\* wire exponents: the i64 hi * 2^32 + mid * 2^16 + low, by its three limbs
ExponentCases ==
    [hi : {-2, -1, 0, 1, 5, 2147483647, (-1073741824) - 1073741824},
     mid : {0, 1, 32767, 32768, 65535},
     low : {0, 1, 5, 65535}]
\* the 64 bits of the i64, least significant first
CaseBits(c) ==
    [k \in 1..64 |->
        IF k <= 16 THEN (c.low \div Pow2(k - 1)) % 2
        ELSE IF k <= 32 THEN (c.mid \div Pow2(k - 17)) % 2
        ELSE IF k <= 63 THEN (c.hi \div Pow2(k - 33)) % 2
        ELSE IF c.hi < 0 THEN 1 ELSE 0]
\* (n << 1) ^ (n >> 63) on the 64 bits of n
zigzag_bits(n) == [k \in 1..64 |-> IF k = 1 THEN n[64] ELSE (n[k - 1] + n[64]) % 2]
\* the 7-bit group g (from 0) of the 64 bits of u
Group7(u, g) ==
    BitsValue([k \in 1..7 |-> IF 7 * g + k <= 64 THEN u[7 * g + k] ELSE 0], 7)
\* number of LEB128 bytes of u
GroupCount(u) ==
    IF \A g \in 0..9 : Group7(u, g) = 0 THEN 1
    ELSE 1 + CHOOSE g \in 0..9 :
                 Group7(u, g) # 0 /\ \A h \in (g + 1)..9 : Group7(u, h) = 0
write_varint_bits(u) ==
    [g \in 1..GroupCount(u) |->
        Group7(u, g - 1) + (IF g < GroupCount(u) THEN 128 ELSE 0)]
\* the wire image of a Decimal with the exponent of case c, the I64 mantissa 1
\* and no unit
ExponentWire(c) ==
    write_varint_bits(zigzag_bits(CaseBits(c)))
        \o <<0>> \o write_signed_varint(1) \o write_varint(0)

\* non-empty big-endian mantissas: every single byte, and the strings of up to
\* MaxMantissaLen bytes of DivisibilityBytes
DivisibilityBytes == {0, 1, 5, 6, 9, 10, 100, 127, 128, 156, 246, 250, 251, 255}
BigMantissas ==
    { <<b>> : b \in 0..255 }
        \cup UNION {[1..n -> DivisibilityBytes] : n \in 1..MaxMantissaLen}
\* the wire image of a Decimal without unit, written without any check
DecimalWire(dec) ==
    write_signed_varint(dec.exponent)
      \o (IF dec.mantissa.form = "I64"
          THEN <<0>> \o write_signed_varint(dec.mantissa.v)
          ELSE <<1>> \o write_varint(Len(dec.mantissa.bytes)) \o dec.mantissa.bytes)
      \o <<0>>

\* strings handed to parse_id: two strings of 32 hex digits, and what comes of
\* them by replacing a character, inserting one, hyphenating, truncating and
\* extending
IdBases ==
    { <<53, 53, 48, 101, 56, 52, 48, 48, 101, 50, 57, 98, 52, 49, 100, 52, 97, 55, 49, 54, 52, 52, 54, 54, 53, 53, 52, 52, 48, 48, 48, 48>>,
      <<65, 66, 67, 68, 69, 70, 97, 98, 99, 100, 101, 102, 48, 49, 50, 51, 52, 53, 54, 55, 56, 57, 102, 70, 97, 65, 48, 57, 70, 102, 49, 48>> }
Put(s, k, c) == [s EXCEPT ![k] = c]
Ins(s, k, c) == SubSeq(s, 1, k) \o <<c>> \o SubSeq(s, k + 1, Len(s))
Hyphenated(s) == Ins(Ins(Ins(Ins(s, 8, 45), 13, 45), 18, 45), 23, 45)
\* '+', '-', ' ', '/', ':', '@', 'G', '`', 'g', 'x', '0', 'F', 'f'
IdChars == {43, 45, 32, 47, 58, 64, 71, 96, 103, 120, 48, 70, 102}
IdStrings ==
    IdBases
    \cup { Hyphenated(b) : b \in IdBases }
    \cup { Put(b, k, c) : b \in IdBases, k \in {1, 2, 17, 31, 32}, c \in IdChars }
    \cup { Ins(b, k, c) : b \in IdBases, k \in {0, 1, 8, 32}, c \in {43, 45, 48} }
    \cup { Put(Hyphenated(b), k, c) : b \in IdBases, k \in {1, 9, 10, 36}, c \in {43, 45, 103} }
    \cup { Ins(Hyphenated(b), k, 45) : b \in IdBases, k \in {0, 9, 11, 36} }
    \cup { SubSeq(b, 1, n) : b \in IdBases, n \in {0, 1, 30, 31} }
    \cup { b \o t : b \in IdBases, t \in {<<48>>, <<48, 48>>, <<45, 45>>} }
    \cup { Put(Put(b, k, c), k + 1, d) :
               b \in IdBases, k \in {1, 2, 31},
               c \in {43, 195}, d \in {43, 169, 49} }

\* digests: bytes 6 and 8 (elements 7 and 9) take each value of DigestBytes,
\* the other bytes of the first half are f and those of the second half g
DigestBytes == {0, 15, 18, 63, 64, 127, 128, 143, 191, 192, 240, 255}
Digests ==
    { [i \in 1..32 |-> IF i = 7 THEN a ELSE IF i = 9 THEN b
                        ELSE IF i <= 16 THEN f ELSE 255 - f] :
          a \in DigestBytes, b \in DigestBytes, f \in {0, 90, 255} }
\* "Name", "test"
UuidInputs == { <<78, 97, 109, 101>>, <<116, 101, 115, 116>> }

\* f64 bit patterns: +0.0, -0.0, 1.0, -1.0, the smallest subnormal, the
\* largest finite value, the infinities, and NaNs (quiet, signalling, negative,
\* fraction bits in the low, middle and high bytes)
Floats ==
    { <<0, 0, 0, 0, 0, 0, 0, 0>>, <<0, 0, 0, 0, 0, 0, 0, 128>>,
      <<0, 0, 0, 0, 0, 0, 240, 63>>, <<0, 0, 0, 0, 0, 0, 240, 191>>,
      <<1, 0, 0, 0, 0, 0, 0, 0>>, <<1, 0, 0, 0, 0, 0, 0, 128>>,
      <<255, 255, 255, 255, 255, 255, 239, 127>>,
      <<0, 0, 0, 0, 0, 0, 240, 127>>, <<0, 0, 0, 0, 0, 0, 240, 255>>,
      <<0, 0, 0, 0, 0, 0, 248, 127>>, <<0, 0, 0, 0, 0, 0, 248, 255>>,
      <<1, 0, 0, 0, 0, 0, 240, 127>>, <<0, 0, 0, 1, 0, 0, 240, 255>>,
      <<0, 0, 0, 0, 0, 128, 240, 127>>, <<0, 0, 0, 0, 0, 0, 241, 127>>,
      <<255, 255, 255, 255, 255, 255, 255, 255>>,
      <<0, 0, 0, 0, 0, 0, 224, 127>>, <<0, 0, 0, 0, 0, 0, 240, 111>> }
\* the wire image of a Float64 without unit, written without any check
Float64Wire(bits) == bits \o write_varint(0)

\* embeddings whose data has the length dims asks for, one byte less, or one
\* byte more
BinaryDims == {1, 3, 7, 8, 9, 12, 16}
EmbeddingBytes == {0, 1, 4, 7, 8, 15, 16, 127, 128, 255}
Embeddings ==
    { VEmbedding(Binary, dims, b) :
          dims \in BinaryDims,
          b \in UNION {[1..n -> EmbeddingBytes] : n \in 0..2} }
    \cup { VEmbedding(Int8, 2, b) : b \in [1..2 -> EmbeddingBytes] }
    \cup { VEmbedding(Float32, 1, b) :
               b \in {<<0, 0, 128, 63>>, <<0, 0, 192, 127>>, <<0, 0, 128, 127>>,
                       <<1, 0, 128, 255>>, <<0, 0>>} }
\* the wire image of an embedding, written without any check
EmbeddingWire(e) == <<e.sub_type>> \o write_varint(e.dims) \o e.data

\* ASCII date strings: an optional '-', a year, and up to three more
\* components after '-'
DateYears ==
    {<<50, 48, 50, 52>>,
     <<48, 48, 48, 48>>,
     <<48, 50, 52>>,
     <<50, 48, 97, 52>>,
     <<48, 50, 48, 50, 52>>,
     <<52, 50, 57, 52, 57, 54, 55, 50, 57, 53>>,
     <<52, 50, 57, 52, 57, 54, 55, 50, 57, 54>>,
     <<57, 57, 57, 57, 57, 57, 57, 57, 57, 57, 57>>,
     <<>>,
     <<43, 48, 50, 52>>,
     <<48, 48, 48, 49>>}
DateMonths ==
    {<<48, 49>>,
     <<49, 50>>,
     <<49, 51>>,
     <<48, 48>>,
     <<43, 49>>,
     <<49>>,
     <<49, 97>>,
     <<48, 48, 49>>,
     <<48, 50>>,
     <<48, 52>>,
     <<>>}
DateDays ==
    {<<48, 49>>,
     <<50, 57>>,
     <<51, 48>>,
     <<51, 49>>,
     <<51, 50>>,
     <<48, 48>>,
     <<43, 53>>,
     <<53>>,
     <<51, 97>>,
     <<>>}
Dates ==
    UNION { {sign \o y} \cup {sign \o y \o <<45>> \o m : m \in DateMonths}
            \cup {sign \o y \o <<45>> \o m \o <<45>> \o d :
                      m \in DateMonths, d \in DateDays}
            \cup {sign \o y \o <<45>> \o m \o <<45, 48, 49, 45, 48, 49>> :
                      m \in {<<48, 49>>}}
            : sign \in {<<>>, <<45>>}, y \in DateYears }

(***************************************************************************)
(* Hand-crafted inputs of decode_edit                                      *)
(***************************************************************************)
\* a wire image whose declared counts need not match what follows them
Wire(t) ==
    MAGIC_UNCOMPRESSED \o <<t.version>> \o t.id \o write_string(t.name)
      \o write_varint(t.authors_n) \o Concat(t.authors)
      \o write_signed_varint(t.created_at)
      \o write_varint(t.properties_n) \o write_properties(t.properties)
      \o write_varint(t.relation_types_n) \o Concat(t.relation_types)
      \o write_varint(t.languages_n) \o Concat(t.languages)
      \o write_varint(t.objects_n) \o Concat(t.objects)
      \o write_varint(t.ops_n) \o t.ops

BaseWire ==
    [version |-> FORMAT_VERSION, id |-> Id(1), name |-> <<116>>,
     authors_n |-> 1, authors |-> <<Id(2)>>, created_at |-> 5,
     properties_n |-> 3,
     properties |-> <<<<P1, DT_Text>>, <<P2, DT_Bool>>, <<Id(12), DT_Text>>>>,
     relation_types_n |-> 1, relation_types |-> <<RelT>>,
     languages_n |-> 1, languages |-> <<LangA>>,
     objects_n |-> 1, objects |-> <<EntA>>,
     ops_n |-> 1, ops |-> <<3, 0>>]

FieldNames == <<"authors", "properties", "relation_types", "languages", "objects", "ops">>
Fields == {FieldNames[i] : i \in 1..Len(FieldNames)}

\* the limit decode_edit passes for each counted field
FieldLimit(f) ==
    CASE f = "authors" -> MAX_AUTHORS
      [] f = "ops" -> MAX_OPS_PER_EDIT
      [] OTHER -> MAX_DICT_SIZE

WithCount(f, n) ==
    CASE f = "authors" -> [BaseWire EXCEPT !.authors_n = n]
      [] f = "properties" -> [BaseWire EXCEPT !.properties_n = n]
      [] f = "relation_types" -> [BaseWire EXCEPT !.relation_types_n = n]
      [] f = "languages" -> [BaseWire EXCEPT !.languages_n = n]
      [] f = "objects" -> [BaseWire EXCEPT !.objects_n = n]
      [] f = "ops" -> [BaseWire EXCEPT !.ops_n = n]

\* declared counts at, just above and far above the limit of the field
ForgedCounts ==
    { Buf(Wire(WithCount(f, FieldLimit(f) + k)), 0) : f \in Fields, k \in {0, 1, 777} }

\* CreateEntity with one value whose property index is k; the payload reads
\* as Bool(true) and as Text("a", no language)
ForgedIndexInput(k) ==
    Buf(Wire([BaseWire EXCEPT !.ops = <<1>> \o EntA \o <<1>> \o write_varint(k)
                                        \o <<1, 97, 0>>]), 0)
WireIndices == {0, 1, 2, 3, 4, 5, 6, 200}
ForgedIndex == { ForgedIndexInput(k) : k \in WireIndices }

BodyTail == SubSeq(Wire(BaseWire), 6, Len(Wire(BaseWire)))
Tails == {<<>>, <<1>>, <<1>> \o BodyTail, BodyTail}
\* the bytes alone, padded to exactly MAX_EDIT_SIZE bytes, and to one more
Padded(bytes) ==
    { Buf(bytes, 0), Buf(bytes, MAX_EDIT_SIZE - Len(bytes)),
      Buf(bytes, MAX_EDIT_SIZE - Len(bytes) + 1) }

ForgedMagic ==
    UNION { Padded(m \o t) : m \in {<<88, 88, 88, 88>>, <<71, 82, 67, 51>>,
                                     <<71, 82, 67, 90>>, <<0, 71, 82, 67>>},
                              t \in Tails }
    \cup {Buf(<<71, 82, 67>>, 0), Buf(<<>>, 0)}

\* version 90 is 'Z': the input then begins with MAGIC_COMPRESSED
Versions == {0, 2, 90, 99, 255}
ForgedVersion ==
    UNION { IF v = 90 THEN {Buf(MAGIC_UNCOMPRESSED \o <<v>> \o t, 0)}
            ELSE Padded(MAGIC_UNCOMPRESSED \o <<v>> \o t) :
                v \in Versions, t \in Tails \ {<<1>> \o BodyTail} }
    \cup {Buf(MAGIC_UNCOMPRESSED, 0)} \cup Padded(Wire(BaseWire))

Payloads == {Wire(BaseWire), <<>>, Repeat(0, 300)}
ZstdPayloads == [pl \in Payloads |-> zstd_encode_all(pl, 3)]
\* payload pl compressed, with n written as its uncompressed size
CompressedOf(pl, n) == MAGIC_COMPRESSED \o write_varint(n) \o ZstdPayloads[pl]
ForgedZstd ==
    { Buf(CompressedOf(pl, n), 0) :
          pl \in Payloads,
          n \in {0, 1, 299, 301, Len(Wire(BaseWire)), Len(Wire(BaseWire)) + 1,
                 MAX_EDIT_SIZE, MAX_EDIT_SIZE + 1, 1000000000} }
    \cup { Buf(MAGIC_COMPRESSED \o write_varint(n) \o st, 0) :
               n \in {2, MAX_EDIT_SIZE + 1},
               st \in {<<>>, <<1, 2, 3, 4, 5, 6>>, ZSTD_MAGIC \o <<2, 7, 1>>,
                       ZSTD_MAGIC \o <<0, 7>>} }
    \cup {Buf(MAGIC_COMPRESSED, 0), Buf(MAGIC_COMPRESSED \o <<128>>, 0)}

\* a well-formed edit of two ops, cut after each of its first n bytes
TwoOpsWire == Wire([BaseWire EXCEPT !.ops_n = 2, !.ops = <<3, 0, 3, 0>>])
ForgedTruncated ==
    { Buf(SubSeq(TwoOpsWire, 1, n), 0) : n \in 5..Len(TwoOpsWire) }

Forged == ForgedCounts \cup ForgedIndex \cup ForgedMagic \cup ForgedVersion
            \cup ForgedZstd \cup ForgedTruncated

(***************************************************************************)
(* State                                                                   *)
(***************************************************************************)
VARIABLES
    edit,           \* the Edit the input was encoded from (NoEdit: hand-crafted)
    mode,           \* "encode_edit", "encode_edit_compressed", "forged" or "extended"
    input,          \* decode_edit's argument
    pc,             \* control point of decode_edit
    declared_size,  \* decompress_zstd: the declared uncompressed size (-1: not read)
    decoder,        \* decompress_zstd: the zstd decoder
    capacity,       \* decompress_zstd: capacity of `decompressed` (-1: not allocated)
    decompressed,   \* decompress_zstd: the output buffer
    data,           \* the bytes the reader reads
    pos,            \* the reader's offset
    header,         \* edit_id, name, authors, created_at read so far
    dicts,          \* WireDictionaries read so far
    field,          \* the counted field being read
    declared,       \* declared count of each counted field (-1: not read)
    reserved,       \* capacity reserved for each counted field (-1: none)
    ops,            \* ops decoded so far
    result,         \* what decode_edit returned
    hash_seed,      \* RandomState of the HashMap of the encoder call
    again,          \* what a second encode_edit call on the same Edit returned
    validation,     \* what validate_edit returned for the Edit, and under which schema
    probe,          \* a Value handed to the value codec, and what each call returned
    reference       \* what decode_edit returned for the input before bytes were appended

vars == <<edit, mode, input, pc, declared_size, decoder, capacity, decompressed,
          data, pos, header, dicts, field, declared, reserved, ops, result,
          hash_seed, again, validation, probe, reference>>

zstdVars == <<declared_size, decoder, capacity, decompressed>>
bodyVars == <<header, dicts, field, declared, reserved, ops>>

NoCounts == [f \in Fields |-> -1]
NoDecoder == [open |-> FALSE, started |-> FALSE, stream |-> <<>>]
NoHeader == [id |-> <<>>, name |-> <<>>, authors |-> <<>>, created_at |-> 0]
NoResult == [kind |-> "None"]
NoOutput == [set |-> FALSE]

Init ==
    /\ edit = NoEdit
    /\ mode = "none"
    /\ input = Buf(<<>>, 0)
    /\ pc = "idle"
    /\ declared_size = -1
    /\ decoder = NoDecoder
    /\ capacity = -1
    /\ decompressed = <<>>
    /\ data = Buf(<<>>, 0)
    /\ pos = 0
    /\ header = NoHeader
    /\ dicts = DictionaryBuilder_new
    /\ field = "authors"
    /\ declared = NoCounts
    /\ reserved = NoCounts
    /\ ops = <<>>
    /\ result = NoResult
    /\ hash_seed = 0
    /\ again = NoOutput
    /\ validation = NoOutput
    /\ probe = [kind |-> "none"]
    /\ reference = NoOutput

\* the caller hands r (the encoder's result) to decode_edit
Handoff(e, m, seed, r) ==
    /\ edit' = e
    /\ mode' = m
    /\ hash_seed' = seed
    /\ input' = IF r.ok THEN Buf(r.bytes, 0) ELSE input
    /\ pc' = IF r.ok THEN "start" ELSE "done"
    /\ result' = IF r.ok THEN result ELSE [kind |-> "EncodeErr", err |-> r.err]
    /\ UNCHANGED <<zstdVars, data, pos, bodyVars, again, validation, probe, reference>>

EncodeEdit ==
    /\ pc = "idle"
    /\ \E e \in Edits, seed \in Seeds :
           Handoff(e, "encode_edit", seed, encode_edit(e, seed))

EncodeEditCompressed ==
    /\ pc = "idle"
    /\ \E e \in Edits, level \in Levels, seed \in Seeds :
           Handoff(e, "encode_edit_compressed", seed,
                   encode_edit_compressed(e, level, seed))

\* the caller encodes the same Edit a second time, with a fresh HashMap
Recorded(seed, r) ==
    [set |-> TRUE, seed |-> seed, ok |-> r.ok,
     bytes |-> IF r.ok THEN r.bytes ELSE <<>>]
EncodeAgain ==
    /\ pc = "start"
    /\ mode = "encode_edit"
    /\ \E seed \in Seeds : again' = Recorded(seed, encode_edit(edit, seed))
    /\ pc' = "encoded_twice"
    /\ UNCHANGED <<edit, mode, input, zstdVars, data, pos, bodyVars, result,
                   hash_seed, validation, probe, reference>>

\* the caller validates the Edit it encoded against an external schema
Validate ==
    /\ pc = "start"
    /\ mode = "encode_edit"
    /\ \E schema \in Schemas :
           validation' = [set |-> TRUE, schema |-> schema,
                          res |-> validate_edit(edit, schema)]
    /\ pc' = "validated"
    /\ UNCHANGED <<edit, mode, input, zstdVars, data, pos, bodyVars, result,
                   hash_seed, again, probe, reference>>

\* the callers of the value codec leave the edit codec's state alone
editVars == <<edit, mode, input, zstdVars, data, pos, bodyVars, result, hash_seed,
              again, validation, reference>>

\* a Decimal is validated, encoded, and its wire image decoded
ProbeDecimal ==
    /\ pc = "idle"
    /\ \E dec \in Decimals :
           probe' = [kind |-> "decimal", value |-> dec,
                     valid |-> Value_validate(dec),
                     encoded |-> encode_value(dec, DictionaryBuilder_new),
                     decoded |-> decode_value(Buf(DecimalWire(dec), 0), 0, DT_Decimal,
                                              DictionaryBuilder_new)]
    /\ pc' = "probed"
    /\ UNCHANGED editVars

\* a Float64 is encoded, and its wire image decoded
ProbeFloat64 ==
    /\ pc = "idle"
    /\ \E bits \in Floats :
           probe' = [kind |-> "float64", value |-> VFloat64(bits),
                     encoded |-> encode_value(VFloat64(bits), DictionaryBuilder_new),
                     decoded |-> decode_value(Buf(Float64Wire(bits), 0), 0, DT_Float64,
                                              DictionaryBuilder_new)]
    /\ pc' = "probed"
    /\ UNCHANGED editVars

\* an Id is derived from bytes, from a genesis name, or from the three Ids
\* of a relation
ProbeUuid ==
    /\ pc = "idle"
    /\ \E digest \in Digests :
           \/ \E x \in UuidInputs :
                  probe' = [kind |-> "uuid", fn |-> "derived_uuid", input |-> x,
                            digest |-> digest, id |-> derived_uuid(x, digest)]
           \/ \E x \in UuidInputs :
                  probe' = [kind |-> "uuid", fn |-> "genesis_id", input |-> x,
                            digest |-> digest, id |-> genesis_id(x, digest)]
           \/ \E t \in {P1, P2} :
                  probe' = [kind |-> "uuid", fn |-> "unique_relation_id",
                            input |-> EntA \o EntB \o t,
                            digest |-> digest,
                            id |-> unique_relation_id(EntA, EntB, t, digest)]
    /\ pc' = "probed"
    /\ UNCHANGED editVars

\* a big mantissa is tested for divisibility by 10
ProbeMantissa ==
    /\ pc = "idle"
    /\ \E b \in BigMantissas :
           probe' = [kind |-> "mantissa", value |-> b,
                     divisible |-> is_big_mantissa_divisible_by_10(b)]
    /\ pc' = "probed"
    /\ UNCHANGED editVars

\* a Decimal with a wide wire exponent is decoded
ProbeExponent ==
    /\ pc = "idle"
    /\ \E c \in ExponentCases :
           probe' = [kind |-> "exponent", value |-> c, wire |-> ExponentWire(c),
                     decoded |-> decode_value(Buf(ExponentWire(c), 0), 0, DT_Decimal,
                                              DictionaryBuilder_new)]
    /\ pc' = "probed"
    /\ UNCHANGED editVars

\* a string is parsed as an Id
ProbeId ==
    /\ pc = "idle"
    /\ \E s \in IdStrings :
           probe' = [kind |-> "id", value |-> s, parsed |-> parse_id(s)]
    /\ pc' = "probed"
    /\ UNCHANGED editVars

\* a date string is validated
ProbeDate ==
    /\ pc = "idle"
    /\ \E s \in Dates :
           probe' = [kind |-> "date", value |-> s, checked |-> validate_iso8601_date(s)]
    /\ pc' = "probed"
    /\ UNCHANGED editVars

\* an embedding is encoded, and its wire image decoded
ProbeEmbedding ==
    /\ pc = "idle"
    /\ \E e \in Embeddings :
           probe' = [kind |-> "embedding", value |-> e,
                     encoded |-> encode_value(e, DictionaryBuilder_new),
                     decoded |-> decode_value(Buf(EmbeddingWire(e), 0), 0, DT_Embedding,
                                              DictionaryBuilder_new)]
    /\ pc' = "probed"
    /\ UNCHANGED editVars

Forge ==
    /\ pc = "idle"
    /\ \E b \in Forged :
           /\ input' = b
           /\ mode' = "forged"
           /\ pc' = "start"
    /\ UNCHANGED <<edit, result, zstdVars, data, pos, bodyVars, hash_seed, again, validation, probe, reference>>

\* o is Ok(next control point, _) or Err(error): `?` and `return Err(..)`
Goto(p) == Ok(p, 0)
\* Faulty variant: an op that fails to decode ends the op loop, and the ops
\* decoded before it are returned.
Step_keep_decoded(o) ==
    /\ pc' = IF o.ok THEN o.v
             ELSE IF pc = "elems" /\ field = "ops" THEN "finish" ELSE "done"
    /\ result' = IF o.ok THEN result ELSE [kind |-> "Err", err |-> o.err]
    /\ UNCHANGED <<hash_seed, again, validation, probe, reference>>

Step(o) ==
    /\ pc' = IF o.ok THEN o.v ELSE "done"
    /\ result' = IF o.ok THEN result ELSE [kind |-> "Err", err |-> o.err]
    /\ UNCHANGED <<hash_seed, again, validation, probe, reference>>

(***************************************************************************)
(* decode_edit, lines 28-56: length, compression detection, size ceiling   *)
(***************************************************************************)
IsCompressed(d) == DLen(d) >= 5 /\ DSlice(d, 0, 5) = MAGIC_COMPRESSED
IsPlain(d) == DLen(d) >= 4 /\ DSlice(d, 0, 4) = MAGIC_UNCOMPRESSED

\* Faulty variant: the size ceiling is tested before the magic.
detect_compression_size_first(d) ==
    IF DLen(d) < 4 THEN Err(UnexpectedEof("magic"))
    ELSE IF IsCompressed(d) THEN Goto("zstd_size")
    ELSE IF DLen(d) > MAX_EDIT_SIZE
         THEN Err(LengthExceedsLimit("edit", DLen(d), MAX_EDIT_SIZE))
    ELSE IF IsPlain(d) THEN Goto("version")
    ELSE Err(InvalidMagic(DSlice(d, 0, 4)))

\* the branch decode_edit takes on its input
detect_compression(d) ==
    IF DLen(d) < 4 THEN Err(UnexpectedEof("magic"))
    ELSE IF IsCompressed(d) THEN Goto("zstd_size")
    ELSE IF IsPlain(d)
         THEN IF DLen(d) > MAX_EDIT_SIZE
              THEN Err(LengthExceedsLimit("edit", DLen(d), MAX_EDIT_SIZE))
              ELSE Goto("version")
    ELSE Err(InvalidMagic(DSlice(d, 0, 4)))

DetectCompression ==
    /\ pc = "start"
    /\ Step(detect_compression(input))
    /\ data' = IF detect_compression(input) = Goto("version") THEN input ELSE data
    /\ UNCHANGED <<edit, mode, input, zstdVars, pos, bodyVars>>

(***************************************************************************)
(* decompress_zstd, lines 128-159                                          *)
(***************************************************************************)
\* Faulty variant: the declared size is not tested before decompression.
check_declared_size_absent(n) == Goto("zstd_new")

\* lines 133-139
check_declared_size(n) ==
    IF n > MAX_EDIT_SIZE
    THEN Err(LengthExceedsLimit("uncompressed_size", n, MAX_EDIT_SIZE))
    ELSE Goto("zstd_new")

ReadDeclaredSize ==
    /\ pc = "zstd_size"
    /\ LET r == read_varint(input, 5, "uncompressed_size")
       IN  /\ declared_size' = IF r.ok THEN r.v ELSE declared_size
           /\ pos' = IF r.ok THEN r.pos ELSE pos
           /\ Step(Bind(r, LAMBDA n: check_declared_size(n.v)))
    /\ UNCHANGED <<edit, mode, input, decoder, capacity, decompressed, data, bodyVars>>

NewDecoder ==
    /\ pc = "zstd_new"
    /\ decoder' = [open |-> TRUE, started |-> FALSE,
                   stream |-> DSlice(input, pos, DLen(input) - pos)]
    /\ pc' = "zstd_alloc"
    /\ UNCHANGED <<edit, mode, input, declared_size, capacity, decompressed, data,
                   pos, bodyVars, result, hash_seed, again, validation, probe, reference>>

AllocBuffer ==
    /\ pc = "zstd_alloc"
    /\ capacity' = declared_size
    /\ decompressed' = <<>>
    /\ pc' = "zstd_read"
    /\ UNCHANGED <<edit, mode, input, declared_size, decoder, data, pos, bodyVars,
                   result, hash_seed, again, validation, probe, reference>>

Max(a, b) == IF a >= b THEN a ELSE b

\* one read of read_to_end: the Vec grows as the decoder produces bytes
ReadToEnd ==
    /\ pc = "zstd_read"
    /\ LET s == decoder.stream
           badFrame == ~decoder.started
                         /\ (Len(s) < 4 \/ SubSeq(s, 1, 4) # ZSTD_MAGIC)
           body == IF decoder.started THEN s ELSE SubSeq(s, 5, Len(s))
           r == IF badFrame THEN [ok |-> FALSE] ELSE zstd_read(body, ReadChunk, <<>>)
       IN  /\ decoder' = IF r.ok THEN [decoder EXCEPT !.started = TRUE,
                                                      !.stream = r.rest]
                         ELSE decoder
           /\ decompressed' = IF r.ok THEN decompressed \o r.out ELSE decompressed
           /\ capacity' = IF r.ok THEN Max(capacity, Len(decompressed) + Len(r.out))
                          ELSE capacity
           /\ Step(IF ~r.ok THEN Err(DecompressionFailed("zstd"))
                   ELSE IF r.rest = <<>> THEN Goto("zstd_check")
                   ELSE Goto("zstd_read"))
    /\ UNCHANGED <<edit, mode, input, declared_size, data, pos, bodyVars>>

\* Faulty variant: only a shortfall of the decompressed data is reported.
check_size_shortfall(declared_n, actual) ==
    IF actual < declared_n THEN Err(UncompressedSizeMismatch(declared_n, actual))
    ELSE IF actual > MAX_EDIT_SIZE
         THEN Err(LengthExceedsLimit("edit", actual, MAX_EDIT_SIZE))
    ELSE Goto("version")

\* lines 151-156, then decode_edit lines 35-41
check_size(declared_n, actual) ==
    IF actual # declared_n THEN Err(UncompressedSizeMismatch(declared_n, actual))
    ELSE IF actual > MAX_EDIT_SIZE
         THEN Err(LengthExceedsLimit("edit", actual, MAX_EDIT_SIZE))
    ELSE Goto("version")

CheckSize ==
    /\ pc = "zstd_check"
    /\ Step(check_size(declared_size, Len(decompressed)))
    /\ data' = IF check_size(declared_size, Len(decompressed)).ok
               THEN Buf(decompressed, 0) ELSE data
    /\ UNCHANGED <<edit, mode, input, zstdVars, pos, bodyVars>>

(***************************************************************************)
(* decode_edit, lines 58-126: magic skip, version, header, dictionaries,   *)
(* ops                                                                     *)
(***************************************************************************)
\* Faulty variant: only versions newer than FORMAT_VERSION are rejected.
check_version_newer(version) ==
    IF version > FORMAT_VERSION THEN Err(UnsupportedVersion(version))
    ELSE Goto("header")

\* lines 64-67
check_version(version) ==
    IF version # FORMAT_VERSION THEN Err(UnsupportedVersion(version))
    ELSE Goto("header")

ReadVersion ==
    /\ pc = "version"
    /\ LET v == Bind(read_bytes(data, 0, 4, "magic"), LAMBDA m:
                     read_byte(data, m.pos, "version"))
       IN  /\ pos' = IF v.ok THEN v.pos ELSE pos
           /\ Step(Bind(v, LAMBDA b: check_version(b.v)))
    /\ UNCHANGED <<edit, mode, input, zstdVars, data, bodyVars>>

ReadHeader ==
    /\ pc = "header"
    /\ LET h == Bind(read_id(data, pos, "edit_id"), LAMBDA id:
                Bind(read_string(data, id.pos, MAX_STRING_LEN, "name"), LAMBDA name:
                    Ok([id |-> id.v, name |-> name.v], name.pos)))
       IN  /\ header' = IF h.ok THEN [header EXCEPT !.id = h.v.id, !.name = h.v.name]
                        ELSE header
           /\ pos' = IF h.ok THEN h.pos ELSE pos
           /\ field' = "authors"
           /\ Step(Bind(h, LAMBDA x: Goto("count")))
    /\ UNCHANGED <<edit, mode, input, zstdVars, data, dicts, declared, reserved, ops>>

\* what decode_edit does once every element of field f is read
AfterField(f) ==
    CASE f = "authors" -> [pc |-> "created_at", field |-> "authors"]
      [] f = "properties" -> [pc |-> "count", field |-> "relation_types"]
      [] f = "relation_types" -> [pc |-> "count", field |-> "languages"]
      [] f = "languages" -> [pc |-> "count", field |-> "objects"]
      [] f = "objects" -> [pc |-> "count", field |-> "ops"]
      [] f = "ops" -> [pc |-> "finish", field |-> "ops"]

CountContext(f) ==
    CASE f = "properties" -> "property_count"
      [] f = "ops" -> "op_count"
      [] OTHER -> f

\* Faulty variant: the limit is tested one too high.
check_count_lenient(f, n) ==
    IF n > FieldLimit(f) + 1 THEN Err(LengthExceedsLimit(f, n, FieldLimit(f)))
    ELSE Goto("reserve")

\* the declared length of counted field f, checked against its limit
check_count(f, n) ==
    IF n > FieldLimit(f) THEN Err(LengthExceedsLimit(f, n, FieldLimit(f)))
    ELSE Goto("reserve")

ReadCount ==
    /\ pc = "count"
    /\ LET n == read_varint(data, pos, CountContext(field))
       IN  /\ declared' = IF n.ok THEN [declared EXCEPT ![field] = n.v] ELSE declared
           /\ pos' = IF n.ok THEN n.pos ELSE pos
           /\ Step(Bind(n, LAMBDA c: check_count(field, c.v)))
    /\ UNCHANGED <<edit, mode, input, zstdVars, data, header, dicts, field, reserved,
                   ops>>

\* Vec::with_capacity(count)
Reserve ==
    /\ pc = "reserve"
    /\ reserved' = [reserved EXCEPT ![field] = declared[field]]
    /\ pc' = IF declared[field] = 0 THEN AfterField(field).pc ELSE "elems"
    /\ field' = IF declared[field] = 0 THEN AfterField(field).field ELSE field
    /\ UNCHANGED <<edit, mode, input, zstdVars, data, pos, header, dicts, declared,
                   ops, result, hash_seed, again, validation, probe, reference>>

\* the elements of field f read so far
ElemsOf(f) ==
    CASE f = "authors" -> header.authors
      [] f = "properties" -> dicts.properties
      [] f = "relation_types" -> dicts.relation_types
      [] f = "languages" -> dicts.languages
      [] f = "objects" -> dicts.objects
      [] f = "ops" -> ops

read_property(d, p) ==
    Bind(read_id(d, p, "property_id"), LAMBDA id:
    Bind(read_byte(d, id.pos, "data_type"), LAMBDA t:
        IF DataType_from_u8(t.v) = None THEN Err(InvalidDataType(t.v))
        ELSE Ok(<<id.v, t.v>>, t.pos)))

read_elem(d, p, f, ds) ==
    CASE f = "properties" -> read_property(d, p)
      [] f = "ops" -> decode_op(d, p, ds)
      [] OTHER -> read_id(d, p, f)

ReadElem ==
    /\ pc = "elems"
    /\ LET r == read_elem(data, pos, field, dicts)
           last == Len(ElemsOf(field)) + 1 = declared[field]
       IN  /\ pos' = IF r.ok THEN r.pos ELSE pos
           /\ header' = IF r.ok /\ field = "authors"
                        THEN [header EXCEPT !.authors = Append(@, r.v)] ELSE header
           /\ dicts' = IF r.ok /\ field \notin {"authors", "ops"}
                       THEN [dicts EXCEPT ![field] = Append(@, r.v)] ELSE dicts
           /\ ops' = IF r.ok /\ field = "ops" THEN Append(ops, r.v) ELSE ops
           /\ field' = IF r.ok /\ last THEN AfterField(field).field ELSE field
           /\ Step(Bind(r, LAMBDA x: IF last THEN Goto(AfterField(field).pc)
                                     ELSE Goto("elems")))
    /\ UNCHANGED <<edit, mode, input, zstdVars, data, declared, reserved>>

ReadCreatedAt ==
    /\ pc = "created_at"
    /\ LET c == read_signed_varint(data, pos, "created_at")
       IN  /\ header' = IF c.ok THEN [header EXCEPT !.created_at = c.v] ELSE header
           /\ pos' = IF c.ok THEN c.pos ELSE pos
           /\ field' = "properties"
           /\ Step(Bind(c, LAMBDA x: Goto("count")))
    /\ UNCHANGED <<edit, mode, input, zstdVars, data, dicts, declared, reserved, ops>>

\* Faulty variant: input left unread after the last op is an error.
Finish_at_end_of_input ==
    /\ pc = "finish"
    /\ result' = IF pos < DLen(data)
                 THEN [kind |-> "Err", err |-> MalformedEncoding("trailing bytes")]
                 ELSE [kind |-> "Ok",
                       edit |-> Edit(header.id, header.name, header.authors,
                                     header.created_at, ops)]
    /\ pc' = "done"
    /\ UNCHANGED <<edit, mode, input, zstdVars, data, pos, bodyVars, hash_seed, again, validation, probe, reference>>

\* lines 119-125: Ok(Edit{..}) follows the op loop; the reader is not asked
\* whether input remains
Finish ==
    /\ pc = "finish"
    /\ result' = [kind |-> "Ok",
                  edit |-> Edit(header.id, header.name, header.authors,
                                header.created_at, ops)]
    /\ pc' = "done"
    /\ UNCHANGED <<edit, mode, input, zstdVars, data, pos, bodyVars, hash_seed, again, validation, probe, reference>>

\* bytes appended to an input: a well-formed CreateEntity op, and one byte
\* followed by zeros up to exactly MAX_EDIT_SIZE bytes in all
TrailingBytes ==
    {[bytes |-> <<1>> \o EntA \o <<0>>, fill |-> FALSE],
     [bytes |-> <<255>>, fill |-> TRUE]}
Extended(d, t) ==
    Buf(d.bytes \o t.bytes,
        IF t.fill THEN MAX_EDIT_SIZE - Len(d.bytes) - Len(t.bytes) ELSE 0)

\* the caller appends bytes to an uncompressed input that decoded, and hands
\* the longer input to decode_edit
DecodeExtended ==
    /\ pc = "done"
    /\ mode \in {"encode_edit", "forged"}
    /\ result.kind = "Ok"
    /\ ~reference.set
    /\ ~IsCompressed(input)
    /\ input.pad = 0
    /\ \E t \in TrailingBytes :
           /\ DLen(Extended(input, t)) <= MAX_EDIT_SIZE
           /\ input' = Extended(input, t)
           /\ reference' = [set |-> TRUE, result |-> result, input |-> input]
    /\ pc' = "start"
    /\ declared_size' = -1
    /\ decoder' = NoDecoder
    /\ capacity' = -1
    /\ decompressed' = <<>>
    /\ data' = Buf(<<>>, 0)
    /\ pos' = 0
    /\ header' = NoHeader
    /\ dicts' = DictionaryBuilder_new
    /\ field' = "authors"
    /\ declared' = NoCounts
    /\ reserved' = NoCounts
    /\ ops' = <<>>
    /\ result' = NoResult
    /\ mode' = "extended"
    /\ UNCHANGED <<edit, hash_seed, again, validation, probe>>

Next ==
    \/ EncodeEdit
    \/ EncodeEditCompressed
    \/ EncodeAgain
    \/ Validate
    \/ ProbeDecimal
    \/ ProbeFloat64
    \/ ProbeUuid
    \/ ProbeMantissa
    \/ ProbeExponent
    \/ ProbeId
    \/ ProbeDate
    \/ ProbeEmbedding
    \/ Forge
    \/ DecodeExtended
    \/ DetectCompression
    \/ ReadDeclaredSize
    \/ NewDecoder
    \/ AllocBuffer
    \/ ReadToEnd
    \/ CheckSize
    \/ ReadVersion
    \/ ReadHeader
    \/ ReadCount
    \/ Reserve
    \/ ReadElem
    \/ ReadCreatedAt
    \/ Finish

Spec == Init /\ [][Next]_vars

(***************************************************************************)
(* Properties                                                              *)
(***************************************************************************)
Failed(e) == [kind |-> "Err", err |-> e]
First4(d) == DSlice(d, 0, 4)
\* the declared uncompressed size of a compressed input
DeclaredOf(d) == read_varint(d, 5, "uncompressed_size")
\* C1: for every valid Edit E, decode_edit(encode_edit(E)) succeeds and
\* returns an Edit equal to E.
RoundTrip ==
    (pc = "done" /\ mode = "encode_edit" /\ ValidEdit(edit))
        => (result.kind = "Ok" /\ result.edit = edit)

\* C2: for every valid Edit E and level L, decode_edit(encode_edit_compressed(E, L))
\* succeeds and returns an Edit equal to E, and the declared uncompressed
\* size equals the length obtained after decompression.
RoundTripCompressed ==
    (pc = "done" /\ mode = "encode_edit_compressed" /\ ValidEdit(edit))
        => /\ result.kind = "Ok"
           /\ result.edit = edit
           /\ Len(decompressed) = declared_size

VersionRejected ==
    (pc = "done" /\ DLen(input) >= 5 /\ IsPlain(input)
        /\ DAt(input, 4) # FORMAT_VERSION)
        => result = Failed(UnsupportedVersion(DAt(input, 4)))

\* C4, amended: every input of at most MAX_EDIT_SIZE bytes beginning with
\* "GRC2" and a version byte other than 1 and other than 'Z' (90) is rejected
\* with UnsupportedVersion carrying that byte.
VersionRejectedWithinLimit ==
    (pc = "done" /\ DLen(input) >= 5 /\ IsPlain(input)
        /\ DAt(input, 4) # FORMAT_VERSION /\ DAt(input, 4) # 90
        /\ DLen(input) <= MAX_EDIT_SIZE)
        => result = Failed(UnsupportedVersion(DAt(input, 4)))
VersionRejectedWitness ==
    /\ pc = "done"
    /\ IsPlain(input)
    /\ DLen(input) = MAX_EDIT_SIZE
    /\ DAt(input, 4) = 255
    /\ Len(input.bytes) > 5
    /\ result = Failed(UnsupportedVersion(255))

\* C5: every input of at least 4 bytes not beginning with "GRC2" is rejected
\* with InvalidMagic carrying its first 4 bytes; the result is determined by
\* those 4 bytes alone.
BadMagicRejected ==
    (pc = "done" /\ DLen(input) >= 4 /\ First4(input) # MAGIC_UNCOMPRESSED)
        => result = Failed(InvalidMagic(First4(input)))
BadMagicWitness ==
    /\ pc = "done"
    /\ DLen(input) > MAX_EDIT_SIZE
    /\ First4(input) = <<71, 82, 67, 90>>
    /\ Len(input.bytes) > 5
    /\ result = Failed(InvalidMagic(<<71, 82, 67, 90>>))

\* C6: while and after decode_edit handles a "GRC2Z" input whose declared
\* size exceeds MAX_EDIT_SIZE, no decoder has been created, no buffer sized,
\* nothing decompressed, and the call ends with
\* LengthExceedsLimit{"uncompressed_size"}.
OversizeRejectedEarly ==
    (pc # "idle" /\ IsCompressed(input) /\ DeclaredOf(input).ok
        /\ DeclaredOf(input).v > MAX_EDIT_SIZE)
        => /\ pc \in {"start", "zstd_size", "done"}
           /\ ~decoder.open
           /\ capacity = -1
           /\ decompressed = <<>>
           /\ pc = "done" =>
                 result = Failed(LengthExceedsLimit("uncompressed_size",
                                                    DeclaredOf(input).v, MAX_EDIT_SIZE))
OversizeRejectedWitness ==
    /\ pc = "done"
    /\ IsCompressed(input)
    /\ DeclaredOf(input) = Ok(1000000000, 10)
    /\ Len(input.bytes) > 14
    /\ result = Failed(LengthExceedsLimit("uncompressed_size", 1000000000,
                                          MAX_EDIT_SIZE))

\* C7: the decompressed buffer never holds more bytes than the declared
\* uncompressed size, hence never more than MAX_EDIT_SIZE.
BufferWithinDeclared ==
    declared_size >= 0
        => (Len(decompressed) <= declared_size /\ Len(decompressed) <= MAX_EDIT_SIZE)

\* C8 as stated: a compressed input whose stream decompresses to a number of
\* bytes other than the declared size is rejected with
\* UncompressedSizeMismatch{declared, actual}.
SizeMismatchReported ==
    \A pl \in Payloads :
        (pc = "done" /\ IsCompressed(input) /\ DeclaredOf(input).ok
            /\ input.bytes = CompressedOf(pl, DeclaredOf(input).v)
            /\ DeclaredOf(input).v # Len(pl))
            => result = Failed(UncompressedSizeMismatch(DeclaredOf(input).v, Len(pl)))

\* C8, amended: a compressed input whose declared size is at most
\* MAX_EDIT_SIZE and whose stream decompresses to a number of bytes other
\* than the declared size is rejected with
\* UncompressedSizeMismatch{declared, actual}; no Edit is returned.
SizeMismatchReportedWithinLimit ==
    \A pl \in Payloads :
        (pc = "done" /\ IsCompressed(input) /\ DeclaredOf(input).ok
            /\ input.bytes = CompressedOf(pl, DeclaredOf(input).v)
            /\ DeclaredOf(input).v # Len(pl)
            /\ DeclaredOf(input).v <= MAX_EDIT_SIZE)
            => result = Failed(UncompressedSizeMismatch(DeclaredOf(input).v, Len(pl)))
SizeMismatchWitness ==
    /\ pc = "done"
    /\ input.bytes = CompressedOf(Wire(BaseWire), 1)
    /\ result = Failed(UncompressedSizeMismatch(1, Len(Wire(BaseWire))))

\* C9: a declared count above the limit of its field ends decode_edit with
\* LengthExceedsLimit{field, declared count, limit}, with no storage reserved
\* for the field and no element of it read.
CountLimitsEnforced ==
    \A f \in Fields :
        declared[f] > FieldLimit(f)
            => /\ pc = "done"
               /\ result = Failed(LengthExceedsLimit(f, declared[f], FieldLimit(f)))
               /\ reserved[f] = -1
               /\ ElemsOf(f) = <<>>
CountLimitsWitness ==
    /\ pc = "done"
    /\ declared["languages"] = MAX_DICT_SIZE + 1
    /\ declared["properties"] = 3
    /\ result = Failed(LengthExceedsLimit("languages", MAX_DICT_SIZE + 1,
                                          MAX_DICT_SIZE))

\* C10: a property value whose wire index is not below the length of the
\* properties dictionary ends decoding with
\* IndexOutOfBounds{"properties", index, length}; otherwise the value is
\* decoded with the DataType of the dictionary entry at that index.
PropertyIndexChecked ==
    \A k \in WireIndices :
        (pc = "done" /\ mode = "forged" /\ input = ForgedIndexInput(k))
            => IF k >= Len(BaseWire.properties)
               THEN result = Failed(IndexOutOfBounds("properties", k,
                                                     Len(BaseWire.properties)))
               ELSE /\ result.kind = "Ok"
                    /\ Len(result.edit.ops) = 1
                    /\ Len(result.edit.ops[1].values) = 1
                    /\ result.edit.ops[1].values[1].property
                           = BaseWire.properties[k + 1][1]
                    /\ data_type(result.edit.ops[1].values[1].value)
                           = BaseWire.properties[k + 1][2]
PropertyIndexWitness ==
    /\ pc = "done"
    /\ input = ForgedIndexInput(5)
    /\ result = Failed(IndexOutOfBounds("properties", 5, 3))

\* C11: a header field, dictionary entry or op that fails to decode ends
\* decode_edit at once with that error, and decode_edit returns an Edit only
\* from the point where all op_count declared ops are decoded: an Edit
\* holding a prefix of the ops is never returned.
NoPartialEdit ==
    [][ /\ (pc = "header" /\ ~read_id(data, pos, "edit_id").ok)
            => (pc' = "done" /\ result' = Failed(read_id(data, pos, "edit_id").err))
        /\ (pc = "count" /\ ~read_varint(data, pos, CountContext(field)).ok)
            => (pc' = "done"
                /\ result' = Failed(read_varint(data, pos, CountContext(field)).err))
        /\ (pc = "elems" /\ ~read_elem(data, pos, field, dicts).ok)
            => (pc' = "done"
                /\ result' = Failed(read_elem(data, pos, field, dicts).err))
        /\ (result'.kind = "Ok" /\ result.kind # "Ok")
            => /\ pc = "finish" /\ pc' = "done"
               /\ declared["ops"] >= 0
               /\ Len(result'.edit.ops) = declared["ops"]
               /\ Len(result'.edit.authors) = declared["authors"]
        /\ result.kind = "Err" => pc = "done" ]_vars
NoPartialEditWitness ==
    /\ pc = "done"
    /\ mode = "forged"
    /\ declared["ops"] = 2
    /\ Len(ops) = 1
    /\ result = Failed(UnexpectedEof("op_type"))

\* the properties an op mentions in its values and unset_properties
MentionedBy(op) ==
    {ValuesOf(op)[k].property : k \in 1..Len(ValuesOf(op))}
        \cup (IF op.op = "UpdateEntity"
              THEN {op.unset_properties[k] : k \in 1..Len(op.unset_properties)}
              ELSE {})
\* C12: in the properties dictionary encode_edit writes, no property Id
\* appears twice (so each has a single DataType), and every property the ops
\* mention in a value or an unset entry appears in it.
PropertyListedOnce ==
    (mode \in {"encode_edit", "encode_edit_compressed"}
        /\ Len(dicts.properties) = declared["properties"])
        => /\ \A i, j \in 1..Len(dicts.properties) :
                  dicts.properties[i][1] = dicts.properties[j][1] => i = j
           /\ \A k \in 1..Len(edit.ops) : \A p \in MentionedBy(edit.ops[k]) :
                  \E i \in 1..Len(dicts.properties) : dicts.properties[i][1] = p
PropertyListedOnceWitness ==
    /\ mode = "encode_edit"
    /\ pc = "done"
    /\ Len(edit.ops) = 2
    /\ edit.ops[1].op = "UpdateEntity"
    /\ edit.ops[1].unset_properties = <<P1>>
    /\ edit.ops[2] = CreateProperty(P1, DT_Text)
    /\ dicts.properties = <<<<P2, DT_Text>>, <<P1, DT_Bool>>>>

\* the data type pass 1 of the encoder holds for property p in its sidecar
\* map, and the one it lists for p in the properties dictionary
RecordedType(e, seed, p) == HashMap_get(collect_edit_ids(e, seed).property_types, p)
ListedType(e, seed, p) ==
    collect_edit_ids(e, seed).builder.properties[
        IndexOf(PropIds(collect_edit_ids(e, seed).builder.properties), p) + 1][2]
\* C13: for an edit that validate_edit accepts, the data type the encoder
\* records for a property, and the type of its dictionary entry, is the
\* DataType of every value the edit carries for that property.
AcceptedTypesAgree ==
    (validation.set /\ validation.res.ok)
        => \A k \in 1..Len(edit.ops) : \A j \in 1..Len(ValuesOf(edit.ops[k])) :
               /\ RecordedType(edit, hash_seed, ValuesOf(edit.ops[k])[j].property)
                      = data_type(ValuesOf(edit.ops[k])[j].value)
               /\ ListedType(edit, hash_seed, ValuesOf(edit.ops[k])[j].property)
                      = data_type(ValuesOf(edit.ops[k])[j].value)

\* <<k, j>>: the j-th PropertyValue of op k, its set, add and remove lists in
\* this order
ValuePositions(e) ==
    {<<k, j>> : k \in 1..Len(e.ops), j \in 1..3} \cap
    {q \in (1..Len(e.ops)) \X (1..3) : q[2] <= Len(ValuesOf(e.ops[q[1]]))}
ValueAt(e, q) == ValuesOf(e.ops[q[1]])[q[2]]
Before(q, r) == q[1] < r[1] \/ (q[1] = r[1] /\ q[2] < r[2])
\* the CreateProperty ops of property p before op k
DeclaredBefore(e, k, p) ==
    {i \in 1..(k - 1) : e.ops[i].op = "CreateProperty" /\ e.ops[i].id = p}
\* the type known for p at op k: that of the latest earlier CreateProperty,
\* else that of the external schema
KnownType(e, schema, k, p) ==
    IF DeclaredBefore(e, k, p) # {}
    THEN Some(e.ops[CHOOSE i \in DeclaredBefore(e, k, p) :
                        \A h \in DeclaredBefore(e, k, p) : h <= i].data_type)
    ELSE IF p \in DOMAIN schema.properties.entries
         THEN Some(schema.properties.entries[p]) ELSE None
Mismatches(e, schema) ==
    {q \in ValuePositions(e) :
        /\ KnownType(e, schema, q[1], ValueAt(e, q).property) # None
        /\ KnownType(e, schema, q[1], ValueAt(e, q).property)[1]
               # data_type(ValueAt(e, q).value)}
FirstMismatch(e, schema) ==
    CHOOSE q \in Mismatches(e, schema) :
        \A r \in Mismatches(e, schema) : r = q \/ Before(q, r)
\* the CreateProperty ops whose type the external schema contradicts
Inconsistent(e, schema) ==
    {i \in 1..Len(e.ops) :
        /\ e.ops[i].op = "CreateProperty"
        /\ e.ops[i].id \in DOMAIN schema.properties.entries
        /\ schema.properties.entries[e.ops[i].id] # e.ops[i].data_type}

\* C14 as stated: validate_edit fails with TypeMismatch{property, expected}
\* at the first PropertyValue whose DataType differs from the type known for
\* its property, expected being that type.
MismatchReported ==
    (validation.set /\ Mismatches(edit, validation.schema) # {})
        => validation.res =
              Err(TypeMismatch(
                  ValueAt(edit, FirstMismatch(edit, validation.schema)).property,
                  KnownType(edit, validation.schema,
                            FirstMismatch(edit, validation.schema)[1],
                            ValueAt(edit, FirstMismatch(edit, validation.schema)).property)[1]))

\* C14, amended: when no CreateProperty before it contradicts the external
\* schema, the first PropertyValue whose DataType differs from the type known
\* for its property (latest earlier CreateProperty, else external schema)
\* makes validate_edit fail with TypeMismatch{property, expected = that type}.
MismatchReportedUnlessInconsistent ==
    (validation.set /\ Mismatches(edit, validation.schema) # {}
        /\ \A i \in Inconsistent(edit, validation.schema) :
               i > FirstMismatch(edit, validation.schema)[1])
        => validation.res =
              Err(TypeMismatch(
                  ValueAt(edit, FirstMismatch(edit, validation.schema)).property,
                  KnownType(edit, validation.schema,
                            FirstMismatch(edit, validation.schema)[1],
                            ValueAt(edit, FirstMismatch(edit, validation.schema)).property)[1]))
MismatchReportedWitness ==
    /\ validation.set
    /\ validation.schema = SchemaContext_new
    /\ Len(edit.ops) = 2
    /\ edit.ops[1] = CreateProperty(P1, DT_Text)
    /\ edit.ops[2].op = "CreateEntity"
    /\ edit.ops[2].values[1] = PV(P1, VBool(TRUE))
    /\ validation.res = Err(TypeMismatch(P1, DT_Text))

\* C15: when a CreateProperty(id, t) names a property the external schema
\* maps to another type and no earlier op fails, validate_edit fails with
\* DataTypeInconsistent{id, schema type, t}, also when a later op holds a
\* value that mismatches.
InconsistencyReported ==
    validation.set => \A i \in Inconsistent(edit, validation.schema) :
        (/\ \A h \in Inconsistent(edit, validation.schema) : i <= h
         /\ \A q \in Mismatches(edit, validation.schema) : q[1] > i)
        => validation.res =
              Err(DataTypeInconsistent(edit.ops[i].id,
                      validation.schema.properties.entries[edit.ops[i].id],
                      edit.ops[i].data_type))
InconsistencyReportedWitness ==
    /\ validation.set
    /\ Len(edit.ops) = 2
    /\ edit.ops[1] = CreateProperty(P1, DT_Text)
    /\ edit.ops[2].op = "CreateEntity"
    /\ edit.ops[2].values[1] = PV(P1, VBool(TRUE))
    /\ validation.res = Err(DataTypeInconsistent(P1, DT_Bool, DT_Text))

\* C16: validate_edit accepts an edit in which no value is on a property of
\* known type other than its own and no CreateProperty contradicts the
\* external schema: values of any type on unknown properties, and values of
\* type T after an inline CreateProperty(p, T) under the empty schema.
UnknownPropertiesAccepted ==
    (validation.set /\ Mismatches(edit, validation.schema) = {}
        /\ Inconsistent(edit, validation.schema) = {})
        => validation.res.ok
UnknownPropertiesWitness ==
    /\ validation.set
    /\ validation.schema = SchemaContext_new
    /\ Len(edit.ops) = 2
    /\ edit.ops[1].op = "CreateEntity"
    /\ edit.ops[1].values[1] = PV(P1, VBool(TRUE))
    /\ edit.ops[2].op = "CreateEntity"
    /\ edit.ops[2].values[1].property = P1
    /\ edit.ops[2].values[1].value.tag = "Text"
    /\ validation.res.ok
InlineDeclarationWitness ==
    /\ validation.set
    /\ validation.schema = SchemaContext_new
    /\ Len(edit.ops) = 2
    /\ edit.ops[1] = CreateProperty(P1, DT_Text)
    /\ edit.ops[2].op = "CreateEntity"
    /\ edit.ops[2].values[1].property = P1
    /\ edit.ops[2].values[1].value.tag = "Text"
    /\ validation.res.ok

\* the integer a mantissa denotes; Big is big-endian two's complement
RECURSIVE Unsigned(_)
Unsigned(bytes) ==
    IF bytes = <<>> THEN 0
    ELSE 256 * Unsigned(SubSeq(bytes, 1, Len(bytes) - 1)) + bytes[Len(bytes)]
RECURSIVE Pow256(_)
Pow256(n) == IF n = 0 THEN 1 ELSE 256 * Pow256(n - 1)
MantissaValue(m) ==
    IF m.form = "I64" THEN m.v
    ELSE IF m.bytes # <<>> /\ m.bytes[1] >= 128
         THEN Unsigned(m.bytes) - Pow256(Len(m.bytes))
    ELSE Unsigned(m.bytes)
\* mantissa zero with a non-zero exponent, or non-zero and divisible by 10
ViolatesNormalization(dec) ==
    \/ MantissaValue(dec.mantissa) = 0 /\ dec.exponent # 0
    \/ MantissaValue(dec.mantissa) # 0 /\ MantissaValue(dec.mantissa) % 10 = 0
\* no redundant leading sign byte
MinimalMantissa(m) ==
    m.form = "Big" /\ Len(m.bytes) > 1
        => ~ \/ m.bytes[1] = 0 /\ m.bytes[2] < 128
             \/ m.bytes[1] = 255 /\ m.bytes[2] >= 128

\* C17 as stated: encode_value and decode_value each return
\* DecimalNotNormalized exactly for the Decimals that violate normalization,
\* I64 and Big alike.
NormalizationChecked ==
    probe.kind = "decimal"
        => /\ (probe.encoded = EncErr("DecimalNotNormalized"))
                <=> ViolatesNormalization(probe.value)
           /\ (probe.decoded = Err(DecimalNotNormalized))
                <=> ViolatesNormalization(probe.value)
           /\ ~ViolatesNormalization(probe.value) => probe.encoded.ok

\* C17, amended: encode_value returns DecimalNotNormalized exactly for the
\* Decimals that violate normalization; so does decode_value for an I64
\* mantissa and for a Big mantissa without redundant leading sign byte, and
\* a Big mantissa with one is rejected with DecimalMantissaNotMinimal.
NormalizationCheckedOnMinimal ==
    probe.kind = "decimal"
        => /\ (probe.encoded = EncErr("DecimalNotNormalized"))
                <=> ViolatesNormalization(probe.value)
           /\ ~ViolatesNormalization(probe.value) => probe.encoded.ok
           /\ IF MinimalMantissa(probe.value.mantissa)
              THEN /\ (probe.decoded = Err(DecimalNotNormalized))
                        <=> ViolatesNormalization(probe.value)
                   /\ ~ViolatesNormalization(probe.value)
                        => probe.decoded = Ok(probe.value,
                                              Len(DecimalWire(probe.value)))
              ELSE probe.decoded = Err(DecimalMantissaNotMinimal)
NormalizationWitness ==
    /\ probe.kind = "decimal"
    /\ probe.value = VDecimal(-2, Big(<<246>>))
    /\ probe.encoded = EncErr("DecimalNotNormalized")
    /\ probe.decoded = Err(DecimalNotNormalized)

\* C18: Value::validate reports a Decimal as invalid exactly when it
\* violates normalization, the same Decimals encode_value rejects with
\* DecimalNotNormalized.
ValidateMatchesNormalization ==
    probe.kind = "decimal"
        => /\ (probe.valid # None) <=> ViolatesNormalization(probe.value)
           /\ (probe.valid # None) <=> (probe.encoded = EncErr("DecimalNotNormalized"))

AllDigits(s) == \A i \in 1..Len(s) : s[i] \in 48..57
\* the number two ASCII digits denote
TwoDigits(s) == 10 * (s[1] - 48) + (s[2] - 48)
DaysIn(month) ==
    IF month = 2 THEN 29 ELSE IF month \in {4, 6, 9, 11} THEN 30 ELSE 31
\* "-MM" or "-MM-DD" with MM in 01..12 and DD in 01..max(MM), or nothing
DateTail(t) ==
    \/ t = <<>>
    \/ /\ Len(t) \in {3, 6}
       /\ t[1] = 45
       /\ AllDigits(SubSeq(t, 2, 3))
       /\ TwoDigits(SubSeq(t, 2, 3)) \in 1..12
       /\ Len(t) = 6
            => /\ t[4] = 45
               /\ AllDigits(SubSeq(t, 5, 6))
               /\ TwoDigits(SubSeq(t, 5, 6)) \in 1..DaysIn(TwoDigits(SubSeq(t, 2, 3)))
\* r is a year of k >= 4 digits followed by a DateTail; with a leading '-'
\* the year is not all zeros
DateBody(r, signed) ==
    \E k \in 4..Len(r) :
        /\ AllDigits(SubSeq(r, 1, k))
        /\ signed => \E i \in 1..k : r[i] # 48
        /\ DateTail(SubSeq(r, k + 1, Len(r)))
WellFormedDate(s) ==
    IF s # <<>> /\ s[1] = 45 THEN DateBody(Tail(s), TRUE) ELSE DateBody(s, FALSE)

\* C19: validate_iso8601_date accepts a string exactly when it is an
\* optional '-', a year of at least 4 digits (not all zeros after '-'),
\* optionally "-MM" with MM in 01..12, optionally "-DD" with DD in
\* 01..max(MM); every other string is rejected.
DateAcceptedExactly ==
    probe.kind = "date" => (probe.checked.ok <=> WellFormedDate(probe.value))

\* C20: for a Binary embedding whose dims is not a multiple of 8 and whose
\* data has ceil(dims / 8) bytes, encode_value and decode_value both reject
\* the data when a bit of the final byte at position dims mod 8 or above is
\* set, and both accept it when those bits are clear.
UnusedBitsRejected ==
    (/\ probe.kind = "embedding"
     /\ probe.value.sub_type = Binary
     /\ probe.value.dims % 8 # 0
     /\ Len(probe.value.data) = (probe.value.dims + 7) \div 8)
        => IF probe.value.data[Len(probe.value.data)] >= Pow2(probe.value.dims % 8)
           THEN ~probe.encoded.ok /\ ~probe.decoded.ok
           ELSE /\ probe.encoded = Enc(EmbeddingWire(probe.value), DictionaryBuilder_new)
                /\ probe.decoded = Ok(probe.value, Len(EmbeddingWire(probe.value)))

\* the 11-bit exponent field and the 52-bit fraction field of a bit pattern
ExponentField(bits) == (bits[8] % 128) * 16 + (bits[7] \div 16)
FractionIsZero(bits) == bits[7] % 16 = 0 /\ \A i \in 1..6 : bits[i] = 0
IsNaN(bits) == ExponentField(bits) = 2047 /\ ~FractionIsZero(bits)

IsHexDigit(c) == c \in 48..57 \/ c \in 97..102 \/ c \in 65..70
HexVal(c) == IF c <= 57 THEN c - 48 ELSE IF c >= 97 THEN c - 87 ELSE c - 55
WithoutHyphens(s) == SelectSeq(s, NotHyphen)

\* C23: parse_id returns an Id exactly when the string, after every '-' is
\* removed, consists of exactly 32 hexadecimal digits, and the Id is the 16
\* bytes those digits denote; every other string yields None.
IdParsedExactly ==
    probe.kind = "id"
        => IF /\ Len(WithoutHyphens(probe.value)) = 32
              /\ \A i \in 1..32 : IsHexDigit(WithoutHyphens(probe.value)[i])
           THEN probe.parsed =
                    Some([i \in 1..16 |->
                             16 * HexVal(WithoutHyphens(probe.value)[2 * i - 1])
                                + HexVal(WithoutHyphens(probe.value)[2 * i])])
           ELSE probe.parsed = None

\* C24: derived_uuid(x) is the first 16 bytes of the hash of x, except that
\* the high nibble of byte 6 is 0x8 and the top two bits of byte 8 are 10;
\* every other bit is unchanged.  The same holds for genesis_id and
\* unique_relation_id.
UuidBitsForced ==
    probe.kind = "uuid"
        => /\ DOMAIN probe.id = 1..16
           /\ probe.id[7] \div 16 = 8
           /\ probe.id[7] % 16 = probe.digest[7] % 16
           /\ probe.id[9] \div 64 = 2
           /\ probe.id[9] % 64 = probe.digest[9] % 64
           /\ \A i \in (1..16) \ {7, 9} : probe.id[i] = probe.digest[i]
UuidBitsForcedWitness ==
    /\ probe.kind = "uuid"
    /\ probe.fn = "genesis_id"
    /\ probe.digest[7] = 127
    /\ probe.digest[9] = 255
    /\ probe.id[7] = 143
    /\ probe.id[9] = 191

\* the dictionaries pass 1 builds for the Edit of the state, and the result of
\* pass 2 (its bytes and the builder it ends with)
PassOne == build(collect_edit_ids(edit, hash_seed).builder)
PassTwo == encode_edit(edit, hash_seed)

WalkValues(op) ==
    IF op.op = "CreateEntity" THEN op.values
    ELSE IF op.op = "UpdateEntity"
    THEN op.set_properties \o op.add_values \o op.remove_values
    ELSE <<>>
WalkProperties(op) ==
    [k \in 1..Len(WalkValues(op)) |-> WalkValues(op)[k].property]
        \o (IF op.op = "UpdateEntity" THEN op.unset_properties ELSE <<>>)
IsTextWithLanguage(pv) == pv.value.tag = "Text" /\ pv.value.language # None
WalkLanguages(op) ==
    [k \in 1..Len(SelectSeq(WalkValues(op), IsTextWithLanguage)) |->
        SelectSeq(WalkValues(op), IsTextWithLanguage)[k].value.language[1]]
WalkObjects(op) ==
    IF op.op \in {"UpdateEntity", "DeleteEntity", "UpdateRelation", "DeleteRelation"}
    THEN <<op.id>>
    ELSE IF op.op = "CreateRelation" THEN <<op.from, op.to>>
    ELSE <<>>
WalkRelationTypes(op) ==
    IF op.op = "CreateRelation" THEN <<op.relation_type>> ELSE <<>>
\* s without the repetitions of an element that has occurred before
FirstSeen(s) ==
    [k \in 1..Cardinality({i \in 1..Len(s) : \A j \in 1..(i - 1) : s[j] # s[i]}) |->
        s[CHOOSE i \in 1..Len(s) :
              /\ \A j \in 1..(i - 1) : s[j] # s[i]
              /\ Cardinality({h \in 1..(i - 1) :
                                 \A j \in 1..(h - 1) : s[j] # s[h]}) = k - 1]]
\* the walk of the first n ops of the Edit of the state
WalkOf(n, W(_)) == Concat([k \in 1..n |-> W(edit.ops[k])])
IsPrefix(s, t) == Len(s) <= Len(t) /\ s = SubSeq(t, 1, Len(s))
\* the dictionaries pass 1 builds for the first n ops
PassOneOf(n) ==
    build(collect_edit_ids([edit EXCEPT !.ops = SubSeq(edit.ops, 1, n)],
                           hash_seed).builder)

DivisibilityExact ==
    probe.kind = "mantissa"
        => (probe.divisible <=> MantissaValue(Big(probe.value)) % 10 = 0)
DivisibilityExactWitness ==
    /\ probe.kind = "mantissa"
    /\ probe.value = <<255, 246>>
    /\ MantissaValue(Big(probe.value)) = -10
    /\ probe.divisible

\* the wire value hi * 2^32 + mid * 2^16 + low lies in the signed 32-bit
\* range, and its value when it does
InI32(c) == (c.hi = 0 /\ c.mid < 32768) \/ (c.hi = -1 /\ c.mid >= 32768)
ValueI32(c) == (IF c.mid >= 32768 THEN c.mid - 65536 ELSE c.mid) * 65536 + c.low

\* C28: decode_value for a Decimal yields the zigzag-decoded wire exponent
\* when it lies in the signed 32-bit range, and fails when it lies outside:
\* an out-of-range exponent is never wrapped into an accepted one.
ExponentRangeChecked ==
    probe.kind = "exponent"
        => IF InI32(probe.value)
           THEN /\ probe.decoded.ok
                /\ probe.decoded.v = VDecimal(ValueI32(probe.value), I64(1))
           ELSE ~probe.decoded.ok

\* the ops at which the walk of validate_edit can stop
FailingOps(e, schema) ==
    Inconsistent(e, schema) \cup {q[1] : q \in Mismatches(e, schema)}
FirstFailingOp(e, schema) ==
    CHOOSE i \in FailingOps(e, schema) : \A h \in FailingOps(e, schema) : i <= h

RedeclarationWitness ==
    /\ validation.set
    /\ validation.schema = SchemaContext_new
    /\ edit.ops = <<CreateProperty(P1, DT_Text), CreateProperty(P1, DT_Bool)>>
    /\ validation.res.ok

\* C30: appending bytes to a decodable uncompressed input, the total staying
\* within MAX_EDIT_SIZE, leaves decode_edit's result unchanged: the same Edit
\* is returned and the unread bytes are not reported as an error.
TrailingBytesIgnored ==
    (pc = "done" /\ reference.set) => result = reference.result

\* an input with ops was extended by a well-formed op beyond its op count, and
\* decoded with the appended bytes left unread
TrailingBytesWitness ==
    /\ pc = "done"
    /\ reference.set
    /\ result.kind = "Ok"
    /\ Len(result.edit.ops) > 0
    /\ pos = DLen(reference.input)
    /\ DLen(input) = pos + Len(<<1>> \o EntA \o <<0>>)

\* an input was extended to exactly MAX_EDIT_SIZE bytes and decoded
TrailingFillWitness ==
    /\ pc = "done"
    /\ reference.set
    /\ result.kind = "Ok"
    /\ DLen(input) = MAX_EDIT_SIZE

=============================================================================
